---- MODULE Spec2Model ----
(***************************************************************************)
(* College Buddy: the MCP agent (src/app/services/agent_mcp.py), its tools *)
(* and two-tier cache (src/app/services/mcp_tools.py) and the backend      *)
(* endpoint that serves them (src/backend.py).                             *)
(*                                                                         *)
(* Text is modelled as a sequence of one-character strings so that the     *)
(* code's lower(), upper(), strip(), startswith(), replace() and the       *)
(* substring tests are computed, not assumed.                              *)
(***************************************************************************)
EXTENDS Integers, Sequences, FiniteSets, TLC

\* Python None where a str or a tuple is expected
None == <<"None">>

----------------------------------------------------------------------------
(* Python str operations used by the agent and the tools                   *)

UpperLetters == <<"A", "B", "C", "D", "E", "F", "G", "H", "I", "J", "K", "L", "M", "N", "O", "P", "Q", "R", "S", "T", "U", "V", "W", "X", "Y", "Z">>
LowerLetters == <<"a", "b", "c", "d", "e", "f", "g", "h", "i", "j", "k", "l", "m", "n", "o", "p", "q", "r", "s", "t", "u", "v", "w", "x", "y", "z">>
Digits == {"0", "1", "2", "3", "4", "5", "6", "7", "8", "9"}

LowerOf == [c \in {UpperLetters[i] : i \in 1..26} |->
                LowerLetters[CHOOSE i \in 1..26 : UpperLetters[i] = c]]
UpperOf == [c \in {LowerLetters[i] : i \in 1..26} |->
                UpperLetters[CHOOSE i \in 1..26 : LowerLetters[i] = c]]

\* str.lower() and str.upper() on one character
LowerChar(c) == IF c \in DOMAIN LowerOf THEN LowerOf[c] ELSE c
UpperChar(c) == IF c \in DOMAIN UpperOf THEN UpperOf[c] ELSE c

ToLower(s) == [i \in 1..Len(s) |-> LowerChar(s[i])]
ToUpper(s) == [i \in 1..Len(s) |-> UpperChar(s[i])]

\* str.strip(): leading and trailing whitespace removed
Strip(s) ==
    IF \A i \in 1..Len(s) : s[i] = " " THEN << >>
    ELSE LET lo == CHOOSE i \in 1..Len(s) :
                       s[i] # " " /\ \A j \in 1..(i - 1) : s[j] = " "
             hi == CHOOSE i \in 1..Len(s) :
                       s[i] # " " /\ \A j \in (i + 1)..Len(s) : s[j] = " "
         IN  SubSeq(s, lo, hi)

\* s[i:].startswith(p), i counted from 1
MatchAt(s, p, i) ==
    /\ i + Len(p) - 1 <= Len(s)
    /\ \A j \in 1..Len(p) : s[i + j - 1] = p[j]

\* s.startswith(p)
StartsWith(s, p) == MatchAt(s, p, 1)

\* p in s
Contains(s, p) == \E i \in 1..(Len(s) + 1) : MatchAt(s, p, i)

\* any(kw in s for kw in kws)
ContainsAny(s, kws) == \E kw \in kws : Contains(s, kw)

\* s.replace(p, ''): every non-overlapping occurrence, left to right
RECURSIVE ReplaceFrom(_, _, _)
ReplaceFrom(s, p, i) ==
    IF i > Len(s) THEN << >>
    ELSE IF Len(p) > 0 /\ MatchAt(s, p, i) THEN ReplaceFrom(s, p, i + Len(p))
    ELSE <<s[i]>> \o ReplaceFrom(s, p, i + 1)

Replace(s, p) == ReplaceFrom(s, p, 1)

\* the regex classes of re: \d, [a-zA-Z0-9] and \w
IsDigit(c) == c \in Digits
IsAlnum(c) == IsDigit(c) \/ c \in DOMAIN LowerOf \/ c \in DOMAIN UpperOf
IsWordChar(c) == IsAlnum(c) \/ c = "_"

\* re.search(r'\b\d{2}[kK]\d{2}[a-zA-Z0-9]+\b', s)
HasRollNumber(s) ==
    \E i \in 1..Len(s) : \E j \in (i + 5)..Len(s) :
        /\ (i = 1 \/ ~IsWordChar(s[i - 1]))
        /\ IsDigit(s[i]) /\ IsDigit(s[i + 1])
        /\ s[i + 2] \in {"k", "K"}
        /\ IsDigit(s[i + 3]) /\ IsDigit(s[i + 4])
        /\ \A n \in (i + 5)..j : IsAlnum(s[n])
        /\ (j = Len(s) \/ ~IsWordChar(s[j + 1]))

----------------------------------------------------------------------------
(* The texts users send in this model                                      *)

M_RESULTS == <<"m", "y", " ", "r", "e", "s", "u", "l", "t", "s">>
M_ROLL == <<" ", "2", "2", "k", "9", "1", "a", "0", "5", "c", "0", " ">>
M_SECRET == <<"s", "e", "c", "r", "e", "t", "1", "2", "3">>
M_HELLO == <<"H", "e", "l", "l", "o">>
M_FEE == <<"f", "e", "e">>
M_ANDY == <<"a", "n", "d", "y", "0", "1">>
M_EQ == <<"a", "=", "b">>
M_PRINCIPAL == <<"W", "h", "o", " ", "i", "s", " ", "t", "h", "e", " ", "P", "r", "i", "n", "c", "i", "p", "a", "l", "?">>

\* Texts of the short conversations that reach the scraping and database
\* tools
Q_NEW_JOB == <<"n", "e", "w", " ", "j", "o", "b", " ", "o", "p", "e", "n", "i", "n", "g", "s">>
Q_AVERAGE == <<"a", "v", "e", "r", "a", "g", "e", " ", "p", "a", "c", "k", "a", "g", "e">>
Q_PLACEMENT == <<"p", "l", "a", "c", "e", "m", "e", "n", "t", " ", "c", "o", "m", "p", "a", "n", "i", "e", "s">>

M_HOW_R_U == <<"h", "o", "w", " ", "r", " ", "u", "?">>
M_SQUARE == <<"(", "a", "+", "b", ")", "^", "2">>
M_SOLVE == <<"s", "o", "l", "v", "e", " ", "2", "+", "2">>
M_PHOTOSYNTHESIS == <<"w", "h", "a", "t", " ", "i", "s", " ", "p", "h", "o", "t", "o", "s", "y", "n", "t", "h", "e", "s", "i", "s", "?">>

ChatTexts ==
    {Q_NEW_JOB, Q_AVERAGE, Q_PLACEMENT, M_HOW_R_U, M_SQUARE, M_SOLVE,
     M_PHOTOSYNTHESIS}

Messages == {M_RESULTS, M_ROLL, M_SECRET, M_HELLO, M_FEE, M_ANDY, M_EQ,
             M_PRINCIPAL}

\* The queries the tools are called with directly
T_PRINCIPAL == <<" ", "P", "r", "i", "n", "c", "i", "p", "a", "l", " ">>
T_NOTICES == <<"l", "a", "t", "e", "s", "t", "_", "n", "o", "t", "i", "c", "e", "s">>
T_OTHER == <<"c", "a", "n", "t", "e", "e", "n">>
T_USER == <<"2", "2", "k", "9", "1", "a", "0", "5", "c", "0">>

ToolQueries == {T_PRINCIPAL, T_NOTICES, T_OTHER}

----------------------------------------------------------------------------
(* TwoTierCache                                                            *)

\* Cached values and tool payloads are records tagged by kind; NoValue is
\* Python None where such a value is expected, EmptyData an empty container.
NoValue == [kind |-> "None"]
EmptyData == [kind |-> "empty"]

\* Python truthiness of a cached value: None and empty containers are false
Truthy(v) == v # NoValue /\ v # EmptyData

\* A cache tier is a function from its keys to its entries; a dynamic
\* entry is the pair (value, timestamp) of set_dynamic.
EmptyCache == << >>

\* dict[key] = value
Put(cache, key, value) ==
    [k \in (DOMAIN cache) \cup {key} |-> IF k = key THEN value ELSE cache[k]]

get_static(static, key) == IF key \in DOMAIN static THEN static[key] ELSE NoValue

set_static(static, key, value) == Put(static, key, value)

get_dynamic_stale(dynamic, key, ttl_seconds, t) ==
    IF key \in DOMAIN dynamic /\ t - dynamic[key].timestamp <= ttl_seconds
    THEN dynamic[key].value
    ELSE NoValue

get_dynamic(dynamic, key, ttl_seconds, t) ==
    IF key \in DOMAIN dynamic /\ t - dynamic[key].timestamp < ttl_seconds
    THEN dynamic[key].value
    ELSE NoValue

\* set_dynamic that rebuilds the tier from the entry it writes
set_dynamic_replace(dynamic, key, value, t) ==
    Put(EmptyCache, key, [value |-> value, timestamp |-> t])

set_dynamic(dynamic, key, value, t) ==
    Put(dynamic, key, [value |-> value, timestamp |-> t])

----------------------------------------------------------------------------
(* Tool results                                                            *)

\* The result dictionary of a tool: success, cached and the payload
\* ("answer", "notices", "data" or "results"); error is "" on success.
Result(success, cached, data, error) ==
    [success |-> success, cached |-> cached, data |-> data, error |-> error]

Failure(error) == Result(FALSE, FALSE, NoValue, error)

----------------------------------------------------------------------------
(* SimplifiedMCPAgent: the pure steps of __call__                          *)

Greetings == {<<"h", "i">>, <<"h", "e", "l", "l", "o">>, <<"h", "e", "y">>, <<"h", "o", "w", " ", "a", "r", "e", " ", "y", "o", "u">>, <<"h", "o", "w", " ", "r", " ", "u">>,
              <<"h", "o", "w", " ", "a", "r", "e", " ", "u">>, <<"w", "h", "a", "t", "s", " ", "u", "p">>, <<"w", "h", "a", "t", "'", "s", " ", "u", "p">>}

\* the greeting test without lower()
IsGreeting_case_sensitive(query) == query \in Greetings

IsGreeting(query) == \E g \in Greetings : g = ToLower(query)

\* Translator.process_query: a text with none of the Telugu or Hindi
\* keywords is English and comes back unchanged.  Every message of this
\* model is such a text.
process_query(query) == query

\* follow_up_patterns, in the dict's iteration order
FollowUpPatterns == <<<<"w", "h", "a", "t", " ", "a", "b", "o", "u", "t">>, <<"a", "n", "d">>, <<"a", "l", "s", "o">>, <<"h", "o", "w", " ", "a", "b", "o", "u", "t">>>>

TOPIC_PLACEMENT == <<"p", "l", "a", "c", "e", "m", "e", "n", "t", " ", "s", "t", "a", "t", "i", "s", "t", "i", "c", "s", " ", "f", "o", "r">>
TOPIC_ADMISSION == <<"a", "d", "m", "i", "s", "s", "i", "o", "n", " ", "i", "n", "f", "o", "r", "m", "a", "t", "i", "o", "n", " ", "f", "o", "r">>
TOPIC_FEE == <<"f", "e", "e", " ", "s", "t", "r", "u", "c", "t", "u", "r", "e", " ", "f", "o", "r">>
TOPIC_HOD == <<"h", "e", "a", "d", " ", "o", "f", " ", "d", "e", "p", "a", "r", "t", "m", "e", "n", "t", " ", "f", "o", "r">>

resolve_context(query, topic) ==
    LET query_lower == ToLower(query)
        hits == {i \in 1..Len(FollowUpPatterns) :
                     StartsWith(query_lower, FollowUpPatterns[i])}
    IN  IF hits # {} /\ topic # None /\ topic # << >>
        THEN LET pattern == FollowUpPatterns[CHOOSE i \in hits :
                                                 \A j \in hits : i <= j]
                 new_subject == Strip(Replace(query_lower, pattern))
             IN  [query |-> topic \o <<" ">> \o new_subject, last_topic |-> topic]
        ELSE [query |-> query,
              last_topic |->
                  IF ContainsAny(query_lower, {<<"p", "l", "a", "c", "e", "m", "e", "n", "t">>, <<"p", "l", "a", "c", "e", "d">>})
                  THEN TOPIC_PLACEMENT
                  ELSE IF Contains(query_lower, <<"a", "d", "m", "i", "s", "s", "i", "o", "n">>) THEN TOPIC_ADMISSION
                  ELSE IF Contains(query_lower, <<"f", "e", "e">>) THEN TOPIC_FEE
                  ELSE IF Contains(query_lower, <<"h", "o", "d">>) THEN TOPIC_HOD
                  ELSE topic]

NonCollege == {<<"f", "o", "r", "m", "u", "l", "a">>, <<"e", "q", "u", "a", "t", "i", "o", "n">>, <<"c", "a", "l", "c", "u", "l", "a", "t", "e">>, <<"s", "o", "l", "v", "e">>,
               <<"m", "a", "t", "h", " ", "p", "r", "o", "b", "l", "e", "m">>, <<"p", "h", "y", "s", "i", "c", "s", " ", "p", "r", "o", "b", "l", "e", "m">>, <<"c", "h", "e", "m", "i", "s", "t", "r", "y", " ", "p", "r", "o", "b", "l", "e", "m">>,
               <<"^", "2">>, <<"=">>, <<"x", "+", "y">>, <<"i", "n", "t", "e", "g", "r", "a", "l">>, <<"d", "e", "r", "i", "v", "a", "t", "i", "v", "e">>,
               <<"t", "h", "e", "o", "r", "e", "m">>, <<"p", "r", "o", "o", "f">>}

is_college_related(query) ==
    LET query_lower == ToLower(query)
    IN  IF ContainsAny(query_lower, NonCollege)
        THEN ContainsAny(query_lower, {<<"c", "o", "l", "l", "e", "g", "e">>, <<"t", "k", "r", "c", "e", "t">>})
        ELSE TRUE

FreshKeywords == {<<"l", "a", "t", "e", "s", "t">>, <<"r", "e", "c", "e", "n", "t">>, <<"c", "u", "r", "r", "e", "n", "t">>, <<"n", "e", "w">>, <<"n", "o", "t", "i", "c", "e">>,
                  <<"a", "n", "n", "o", "u", "n", "c", "e", "m", "e", "n", "t">>}

PortalKeywords == {<<"m", "y", " ", "r", "e", "s", "u", "l", "t">>, <<"m", "y", " ", "a", "t", "t", "e", "n", "d", "a", "n", "c", "e">>, <<"l", "o", "g", "i", "n">>,
                   <<"s", "t", "u", "d", "e", "n", "t", " ", "p", "o", "r", "t", "a", "l">>, <<"d", "a", "s", "h", "b", "o", "a", "r", "d">>, <<"m", "y", " ", "g", "r", "a", "d", "e">>, <<"m", "y", " ", "m", "a", "r", "k">>}

SqlKeywords == {<<"h", "o", "w", " ", "m", "a", "n", "y">>, <<"s", "t", "u", "d", "e", "n", "t", "s", " ", "p", "l", "a", "c", "e", "d">>, <<"p", "l", "a", "c", "e", "m", "e", "n", "t", " ", "r", "a", "t", "e">>,
                <<"p", "l", "a", "c", "e", "m", "e", "n", "t", " ", "s", "t", "a", "t", "i", "s", "t", "i", "c", "s">>, <<"c", "g", "p", "a">>, <<"a", "v", "e", "r", "a", "g", "e">>,
                <<"t", "o", "p", " ", "c", "o", "m", "p", "a", "n", "i", "e", "s">>, <<"r", "e", "c", "r", "u", "i", "t", "e", "r", "s">>, <<"s", "t", "u", "d", "e", "n", "t", "s", " ", "i", "n">>,
                <<"h", "i", "g", "h", "e", "s", "t">>, <<"l", "o", "w", "e", "s", "t">>, <<"p", "a", "c", "k", "a", "g", "e">>, <<"s", "a", "l", "a", "r", "y">>, <<"c", "o", "u", "n", "t">>,
                <<"n", "u", "m", "b", "e", "r", " ", "o", "f">>, <<"t", "o", "t", "a", "l">>, <<"p", "e", "r", "c", "e", "n", "t">>, <<"d", "a", "t", "a", "b", "a", "s", "e">>, <<"d", "b">>,
                <<"r", "e", "c", "o", "r", "d">>}

PlacementKeywords == {<<"p", "l", "a", "c", "e", "m", "e", "n", "t">>, <<"p", "l", "a", "c", "e", "d">>, <<"c", "o", "m", "p", "a", "n", "y">>, <<"c", "o", "m", "p", "a", "n", "i", "e", "s">>,
                      <<"j", "o", "b">>}

StatsKeywords == {<<"h", "o", "w", " ", "m", "a", "n", "y">>, <<"s", "t", "a", "t", "i", "s", "t", "i", "c", "s">>, <<"r", "a", "t", "e">>, <<"p", "e", "r", "c", "e", "n", "t", "a", "g", "e">>}

\* _select_tool with the portal test moved ahead of the freshness test
select_tool_portal_first(query) ==
    LET query_lower == ToLower(query)
    IN  IF ContainsAny(query_lower, PortalKeywords)
        THEN "query_student_portal"
        ELSE IF ContainsAny(query_lower, FreshKeywords)
        THEN "scrape_latest_notices"
        ELSE IF HasRollNumber(query_lower)
                /\ ContainsAny(query_lower, {<<"r", "e", "s", "u", "l", "t">>, <<"m", "a", "r", "k">>})
        THEN "query_student_portal"
        ELSE IF ContainsAny(query_lower, SqlKeywords) THEN "query_database"
        ELSE IF ContainsAny(query_lower, PlacementKeywords)
        THEN IF ContainsAny(query_lower, StatsKeywords)
             THEN "query_database"
             ELSE "scrape_placements"
        ELSE "check_static_facts"

\* _select_tool with the placement test ahead of the database keywords and
\* without its statistics test
select_tool_placement_first(query) ==
    LET query_lower == ToLower(query)
    IN  IF ContainsAny(query_lower, FreshKeywords) THEN "scrape_latest_notices"
        ELSE IF ContainsAny(query_lower, PortalKeywords)
        THEN "query_student_portal"
        ELSE IF HasRollNumber(query_lower)
                /\ ContainsAny(query_lower, {<<"r", "e", "s", "u", "l", "t">>, <<"m", "a", "r", "k">>})
        THEN "query_student_portal"
        ELSE IF ContainsAny(query_lower, PlacementKeywords)
        THEN "scrape_placements"
        ELSE IF ContainsAny(query_lower, SqlKeywords) THEN "query_database"
        ELSE "check_static_facts"

select_tool(query) ==
    LET query_lower == ToLower(query)
    IN  IF ContainsAny(query_lower, FreshKeywords) THEN "scrape_latest_notices"
        ELSE IF ContainsAny(query_lower, PortalKeywords)
        THEN "query_student_portal"
        ELSE IF HasRollNumber(query_lower)
                /\ ContainsAny(query_lower, {<<"r", "e", "s", "u", "l", "t">>, <<"m", "a", "r", "k">>})
        THEN "query_student_portal"
        ELSE IF ContainsAny(query_lower, SqlKeywords) THEN "query_database"
        ELSE IF ContainsAny(query_lower, PlacementKeywords)
        THEN IF ContainsAny(query_lower, StatsKeywords)
             THEN "query_database"
             ELSE "scrape_placements"
        ELSE "check_static_facts"

\* data_type chosen for the portal call
portal_data_type(query) ==
    LET q == ToLower(query)
    IN  IF ContainsAny(q, {<<"r", "e", "s", "u", "l", "t">>, <<"g", "r", "a", "d", "e">>, <<"m", "a", "r", "k">>}) THEN <<"r", "e", "s", "u", "l", "t", "s">>
        ELSE IF ContainsAny(q, {<<"d", "a", "s", "h", "b", "o", "a", "r", "d">>, <<"a", "t", "t", "e", "n", "d", "a", "n", "c", "e">>}) THEN <<"d", "a", "s", "h", "b", "o", "a", "r", "d">>
        ELSE <<"a", "l", "l">>

\* len() of the answer text each static rule builds from KNOWLEDGE_BASE
RuleLen ==
    [principal |-> 50, vice_principal |-> 75, secretary |-> 49,
     chairman |-> 53, founder |-> 57, timings |-> 88, location |-> 60,
     established |-> 52, courses |-> 177, facilities |-> 283,
     accreditation |-> 95, canteen |-> 159, about |-> 493,
     scholarships |-> 438, fees |-> 416, events |-> 459,
     exam_schedule |-> 340, library |-> 227]

\* len("The HOD of {DEPT} is {hod}") for each department
HodLen(d) ==
    CASE d = <<"c", "s", "e">> -> 35 [] d = <<"c", "s", "e", "-", "a", "i", "m", "l">> -> 44 [] d = <<"c", "s", "m">> -> 39
      [] d = <<"c", "s", "e", "-", "d", "s">> -> 35 [] d = <<"c", "s", "d">> -> 32 [] d = <<"e", "c", "e">> -> 38
      [] d = <<"e", "e", "e">> -> 29 [] d = <<"i", "t">> -> 36 [] d = <<"m", "e", "c", "h">> -> 37
      [] d = <<"c", "i", "v", "i", "l">> -> 39 [] d = <<"m", "b", "a">> -> 35

RECURSIVE SumHodLen(_)
SumHodLen(ds) ==
    IF ds = {} THEN 0
    ELSE LET d == CHOOSE x \in ds : TRUE
         IN  HodLen(d) + 2 + SumHodLen(ds \ {d})

\* len(answer): the HOD sentences are joined by ". " and closed by "."
AnswerLen(answer) ==
    IF answer.rule = "hod" THEN SumHodLen(answer.depts) - 1
    ELSE RuleLen[answer.rule]

LLM_SKIP_LEN == 150


\* The topics last_topic can hold
Topics == {None, TOPIC_PLACEMENT, TOPIC_ADMISSION, TOPIC_FEE, TOPIC_HOD}

\* What __call__ derives from the text alone: the message after strip and
\* translation, the greeting test, context resolution under the current
\* topic, the scope test, and the routing of the resolved query.
Plan(message, topic) ==
    LET stripped == Strip(message)
        query0 == process_query(stripped)
        rc == resolve_context(query0, topic)
    IN  [stripped |-> stripped,
         original_query |-> query0,
         greeting |-> IsGreeting(query0),
         query |-> rc.query,
         last_topic |-> rc.last_topic,
         in_scope |-> is_college_related(rc.query),
         credential |-> Strip(rc.query),
         tool |-> select_tool(rc.query),
         data_type |-> portal_data_type(rc.query)]

\* Plan tabulated once for the texts of this model; any other text is
\* computed on the spot, so PlanOf(m, t) = Plan(m, t) for all m and t.
PlanTable ==
    [m \in Messages \cup ChatTexts |-> [t \in Topics |-> Plan(m, t)]]

PlanOf(message, topic) ==
    IF message \in Messages \cup ChatTexts /\ topic \in Topics
    THEN PlanTable[message][topic]
    ELSE Plan(message, topic)

\* The query the login block substitutes once the password is in
RESULTS_QUERY == <<"m", "y", " ", "r", "e", "s", "u", "l", "t", "s">>

RESULTS_PLAN == Plan(RESULTS_QUERY, None)

\* The lower-cased queries check_static_facts can be asked in this model
KnownQueries ==
    {ToLower(PlanTable[m][t].query) : m \in Messages \cup {M_HOW_R_U, M_PHOTOSYNTHESIS}, t \in Topics}
        \cup {ToLower(q) : q \in ToolQueries}

----------------------------------------------------------------------------
(* CollegeMCPTools.check_static_facts                                      *)

\* the keys of KNOWLEDGE_BASE['personnel']['hod']
Depts == {<<"c", "s", "e">>, <<"c", "s", "e", "-", "a", "i", "m", "l">>, <<"c", "s", "m">>, <<"c", "s", "e", "-", "d", "s">>, <<"c", "s", "d">>, <<"e", "c", "e">>,
          <<"e", "e", "e">>, <<"i", "t">>, <<"m", "e", "c", "h">>, <<"c", "i", "v", "i", "l">>, <<"m", "b", "a">>}

Answer(rule) == [kind |-> "answer", rule |-> rule, depts |-> {}]

HodAnswer(depts) == [kind |-> "answer", rule |-> "hod", depts |-> depts]

\* The rule chain of check_static_facts after the cache lookup: the answer
\* of the first rule that matches, NoValue when none does.
StaticRule(q) ==
    IF (Contains(q, <<"p", "r", "i", "n", "c", "i", "p", "a", "l">>) \/ Contains(q, <<"p", "r", "i", "n", "c", "i", "p", "l", "e">>))
         /\ ~Contains(q, <<"v", "i", "c", "e">>)
    THEN Answer("principal")
    ELSE IF Contains(q, <<"v", "i", "c", "e", " ", "p", "r", "i", "n", "c", "i", "p", "a", "l">>) THEN Answer("vice_principal")
    ELSE IF Contains(q, <<"s", "e", "c", "r", "e", "t", "a", "r", "y">>) THEN Answer("secretary")
    ELSE IF Contains(q, <<"c", "h", "a", "i", "r", "m", "a", "n">>) THEN Answer("chairman")
    ELSE IF ContainsAny(q, {<<"f", "o", "u", "n", "d", "e", "r">>, <<"f", "o", "u", "n", "d", "e", "d", " ", "b", "y">>, <<"w", "h", "o", " ", "s", "t", "a", "r", "t", "e", "d">>})
    THEN Answer("founder")
    ELSE IF ContainsAny(q, {<<"h", "o", "d">>, <<"h", "e", "a", "d", " ", "o", "f", " ", "d", "e", "p", "a", "r", "t", "m", "e", "n", "t">>})
            /\ \E d \in Depts : Contains(q, d)
    THEN HodAnswer({d \in Depts : Contains(q, d)})
    ELSE IF ContainsAny(q, {<<"t", "i", "m", "i", "n", "g">>, <<"h", "o", "u", "r", "s">>, <<"t", "i", "m", "e">>})
    THEN Answer("timings")
    ELSE IF ContainsAny(q, {<<"l", "o", "c", "a", "t", "i", "o", "n">>, <<"a", "d", "d", "r", "e", "s", "s">>, <<"w", "h", "e", "r", "e">>})
    THEN Answer("location")
    ELSE IF ContainsAny(q, {<<"e", "s", "t", "a", "b", "l", "i", "s", "h", "e", "d">>, <<"f", "o", "u", "n", "d", "e", "d">>, <<"s", "t", "a", "r", "t", "e", "d">>})
    THEN Answer("established")
    ELSE IF ContainsAny(q, {<<"c", "o", "u", "r", "s", "e">>, <<"p", "r", "o", "g", "r", "a", "m">>, <<"b", "r", "a", "n", "c", "h">>, <<"d", "e", "p", "t">>})
    THEN Answer("courses")
    ELSE IF ContainsAny(q, {<<"f", "a", "c", "i", "l", "i", "t">>, <<"i", "n", "f", "r", "a", "s", "t", "r", "u", "c", "t", "u", "r", "e">>, <<"t", "r", "a", "n", "s", "p", "o", "r", "t">>,
                            <<"g", "r", "o", "u", "n", "d">>, <<"p", "l", "a", "y", "g", "r", "o", "u", "n", "d">>, <<"s", "p", "o", "r", "t", "s">>})
    THEN Answer("facilities")
    ELSE IF ContainsAny(q, {<<"n", "a", "a", "c">>, <<"n", "b", "a">>, <<"a", "c", "c", "r", "e", "d", "i", "t">>})
    THEN Answer("accreditation")
    ELSE IF ContainsAny(q, {<<"f", "o", "o", "d">>, <<"c", "a", "n", "t", "e", "e", "n">>, <<"m", "e", "s", "s">>, <<"c", "a", "f", "e", "t", "e", "r", "i", "a">>})
    THEN Answer("canteen")
    ELSE IF ContainsAny(q, {<<"a", "b", "o", "u", "t", " ", "c", "o", "l", "l", "e", "g", "e">>, <<"t", "e", "l", "l", " ", "a", "b", "o", "u", "t">>,
                            <<"c", "o", "l", "l", "e", "g", "e", " ", "l", "i", "f", "e">>, <<"a", "b", "o", "u", "t", " ", "t", "k", "r", "c", "e", "t">>})
    THEN Answer("about")
    ELSE IF ContainsAny(q, {<<"s", "c", "h", "o", "l", "a", "r", "s", "h", "i", "p">>, <<"f", "i", "n", "a", "n", "c", "i", "a", "l", " ", "a", "i", "d">>})
    THEN Answer("scholarships")
    ELSE IF ContainsAny(q, {<<"f", "e", "e">>, <<"f", "e", "e", "s">>, <<"c", "o", "s", "t">>, <<"t", "u", "i", "t", "i", "o", "n">>})
    THEN Answer("fees")
    ELSE IF ContainsAny(q, {<<"e", "v", "e", "n", "t">>, <<"f", "e", "s", "t">>, <<"f", "e", "s", "t", "i", "v", "a", "l">>, <<"c", "o", "m", "p", "e", "t", "i", "t", "i", "o", "n">>})
    THEN Answer("events")
    ELSE IF ContainsAny(q, {<<"e", "x", "a", "m">>, <<"t", "e", "s", "t">>, <<"m", "i", "d">>, <<"s", "e", "m", "e", "s", "t", "e", "r">>})
    THEN Answer("exam_schedule")
    ELSE IF ContainsAny(q, {<<"l", "i", "b", "r", "a", "r", "y">>, <<"b", "o", "o", "k">>})
    THEN Answer("library")
    ELSE NoValue

\* StaticRule tabulated once for the texts of this model; any other text is
\* computed on the spot, so StaticRuleOf(q) = StaticRule(q) for every q.
StaticRuleTable == [q \in KnownQueries |-> StaticRule(q)]

StaticRuleOf(q) ==
    IF q \in KnownQueries THEN StaticRuleTable[q] ELSE StaticRule(q)

\* A tool call yields its result and the two cache tiers it leaves behind.
ToolReturn(result, static, dynamic) ==
    [result |-> result, static |-> static, dynamic |-> dynamic]


check_static_facts(query, static, dynamic) ==
    LET query_lower == ToLower(query)
        cached == get_static(static, query_lower)
        answer == StaticRuleOf(query_lower)
    IN  IF Truthy(cached)
        THEN ToolReturn(Result(TRUE, TRUE, cached, << >>), static, dynamic)
        ELSE IF answer # NoValue
        THEN ToolReturn(Result(TRUE, FALSE, answer, << >>),
                        set_static(static, query_lower, answer), dynamic)
        ELSE ToolReturn(Failure(<<"N", "o", " ", "s", "t", "a", "t", "i", "c", " ", "f", "a", "c", "t", " ", "f", "o", "u", "n", "d", " ", "f", "o", "r", " ", "t", "h", "i", "s", " ", "q", "u", "e", "r", "y">>),
                        static, dynamic)

----------------------------------------------------------------------------
(* The scraping, database, search and portal tools.  What the external     *)
(* collaborator does in a call (the web site, the SQL system, the portal)  *)
(* is the parameter ext: an outcome and, when it delivers, a payload.      *)

NOTICES_TTL == 3600
PLACEMENTS_TTL == 3600
DATABASE_TTL == 3600
SEARCH_TTL == 3600
PORTAL_TTL == 300

Payload(source, version) ==
    [kind |-> "payload", source |-> source, version |-> version]

Ext(outcome, version) == [outcome |-> outcome, version |-> version]

\* ext is the notifications page: "ok", "blocked" (the page of the firewall,
\* which the tool reads like any other page: its text becomes the one
\* notice) or "raise".
scrape_latest_notices(static, dynamic, t, ext) ==
    LET cache_key == <<"l", "a", "t", "e", "s", "t", "_", "n", "o", "t", "i", "c", "e", "s">>
        cached == get_dynamic(dynamic, cache_key, NOTICES_TTL, t)
        notices == IF ext.outcome = "blocked"
                   THEN Payload("blocked_page", ext.version)
                   ELSE Payload("notices", ext.version)
    IN  IF Truthy(cached)
        THEN ToolReturn(Result(TRUE, TRUE, cached, << >>), static, dynamic)
        ELSE IF ext.outcome \in {"ok", "blocked"}
        THEN ToolReturn(Result(TRUE, FALSE, notices, << >>), static,
                        set_dynamic(dynamic, cache_key, notices, t))
        ELSE ToolReturn(Failure(<<"e", "x", "c", "e", "p", "t", "i", "o", "n">>), static, dynamic)

query_database(query, static, dynamic, t, ext) ==
    LET cache_key == <<"d", "b", "_">> \o ToLower(query)
        cached == get_dynamic(dynamic, cache_key, DATABASE_TTL, t)
        result == Payload("database", ext.version)
    IN  IF Truthy(cached)
        THEN ToolReturn(Result(TRUE, TRUE, cached, << >>), static, dynamic)
        ELSE IF ext.outcome = "ok"
        THEN ToolReturn(Result(TRUE, FALSE, result, << >>), static,
                        set_dynamic(dynamic, cache_key, result, t))
        ELSE ToolReturn(Failure(<<"e", "x", "c", "e", "p", "t", "i", "o", "n">>), static, dynamic)

\* ext is the placements page ("ok", "blocked" by the firewall, "raise");
\* dbext is the SQL system, consulted only on the firewall fallback.
scrape_placements(static, dynamic, t, ext, dbext) ==
    LET cache_key == <<"p", "l", "a", "c", "e", "m", "e", "n", "t", "s">>
        cached == get_dynamic(dynamic, cache_key, PLACEMENTS_TTL, t)
        data == Payload("placements", ext.version)
        db == query_database(<<"p", "l", "a", "c", "e", "m", "e", "n", "t", " ", "s", "t", "a", "t", "i", "s", "t", "i", "c", "s">>, static, dynamic, t, dbext)
        content == IF db.result.success THEN db.result.data
                   ELSE [kind |-> "text", text |-> "No data"]
    IN  IF Truthy(cached)
        THEN ToolReturn(Result(TRUE, TRUE, cached, << >>), static, dynamic)
        ELSE IF ext.outcome = "blocked"
        THEN ToolReturn(Result(TRUE, FALSE,
                               [kind |-> "fallback", content |-> content], << >>),
                        db.static, db.dynamic)
        ELSE IF ext.outcome = "ok"
        THEN ToolReturn(Result(TRUE, FALSE, data, << >>), static,
                        set_dynamic(dynamic, cache_key, data, t))
        ELSE ToolReturn(Failure(<<"e", "x", "c", "e", "p", "t", "i", "o", "n">>), static, dynamic)

\* ext.outcome is "found" when some page mentions a keyword of the query and
\* "not_found" otherwise.  combined_text is assigned only on the not-found
\* branch, so the found branch reaches set_dynamic with the name unbound and
\* leaves through the outer except.
search_website(query, static, dynamic, t, ext) ==
    LET cache_key == <<"s", "e", "a", "r", "c", "h", "_">> \o ToLower(query)
        cached == get_dynamic(dynamic, cache_key, SEARCH_TTL, t)
        combined_text == [kind |-> "search_fallback", query |-> query]
    IN  IF Truthy(cached)
        THEN ToolReturn(Result(TRUE, TRUE, cached, << >>), static, dynamic)
        ELSE IF ext.outcome = "not_found"
        THEN ToolReturn(Result(TRUE, FALSE, combined_text, << >>), static,
                        set_dynamic(dynamic, cache_key, combined_text, t))
        ELSE ToolReturn(Failure(<<"e", "x", "c", "e", "p", "t", "i", "o", "n">>), static, dynamic)

\* ext.outcome is "ok", "login_failed" (scraper.login returned success False)
\* or "raise".  The autonomous scraper has no fetch_dashboard_data, so its
\* data stays the empty map unless results are requested.
query_student_portal(username, password, data_type, portal_type, static, dynamic, t, ext) ==
    LET portal == portal_type
        cache_key == <<"p", "o", "r", "t", "a", "l", "_">> \o portal \o <<"_">> \o ToUpper(username)
                        \o <<"_">> \o data_type
        cached == get_dynamic(dynamic, cache_key, PORTAL_TTL, t)
        data == IF data_type \in {<<"r", "e", "s", "u", "l", "t", "s">>, <<"a", "l", "l">>} \/ portal # <<"a", "u", "t", "o", "n", "o", "m", "o", "u", "s">>
                THEN Payload("portal", ext.version)
                ELSE EmptyData
    IN  IF Truthy(cached)
        THEN ToolReturn(Result(TRUE, TRUE, cached, << >>), static, dynamic)
        ELSE IF ext.outcome = "login_failed"
        THEN ToolReturn(Failure(<<"L", "o", "g", "i", "n", " ", "f", "a", "i", "l", "e", "d">>), static, dynamic)
        ELSE IF ext.outcome = "ok"
        THEN ToolReturn(Result(TRUE, FALSE, data, << >>), static,
                        set_dynamic(dynamic, cache_key, data, t))
        ELSE ToolReturn(Failure(<<"e", "x", "c", "e", "p", "t", "i", "o", "n">>), static, dynamic)

----------------------------------------------------------------------------
(* SimplifiedMCPAgent: responses                                           *)

Canned(kind) == [kind |-> kind]

EMPTY_QUERY == Canned("please_enter_a_question")
GREETING == Canned("greeting")
SCOPE_REJECT == Canned("scope_reject")
PASSWORD_PROMPT == Canned("password_prompt")
ROLL_NUMBER_PROMPT == Canned("roll_number_prompt")
NOT_FOUND == Canned("could_not_find")
NO_NOTICES == Canned("no_recent_notices")

\* _should_use_llm, for the raw text of a static answer or of a payload;
\* whether fetched text already carries emojis is the collaborator's.
should_use_llm(raw, tool_name, llm_available) ==
    /\ llm_available
    /\ ~(tool_name = "check_static_facts" /\ AnswerLen(raw) < LLM_SKIP_LEN)

\* _format_response without the success test of its first lines
format_response_unchecked(result, tool_name, llm_available, llm) ==
    IF tool_name = "query_student_portal"
    THEN [kind |-> "portal", data |-> result.data]
    ELSE IF tool_name = "scrape_latest_notices" /\ ~Truthy(result.data)
    THEN NO_NOTICES
    ELSE [kind |-> "tool", tool |-> tool_name, data |-> result.data,
          llm |-> 0]

\* _format_response; llm is what the formatter returns when it is asked:
\* 0 for no text of its own (timeout, error, empty), n > 0 for its n-th
\* wording.
format_response(result, tool_name, llm_available, llm) ==
    IF ~result.success THEN NOT_FOUND
    ELSE IF tool_name = "query_student_portal"
    THEN [kind |-> "portal", data |-> result.data]
    ELSE IF tool_name = "scrape_latest_notices" /\ ~Truthy(result.data)
    THEN NO_NOTICES
    ELSE [kind |-> "tool", tool |-> tool_name, data |-> result.data,
          llm |-> IF should_use_llm(result.data, tool_name, llm_available)
                  THEN llm ELSE 0]

----------------------------------------------------------------------------
(* SimplifiedMCPAgent.__call__                                             *)

Call(tool, args) == [tool |-> tool, args |-> args]

\* The one element of a one-element set: what a local name is bound to
\* after its expression has run once.
Only(S) == CHOOSE v \in S : TRUE

\* conversation_history.append(q), keeping the last 3
HISTORY_LEN == 3

\* _add_to_history without the pop of the oldest entry
Remember_keep_all(history, q) == Append(history, q)

Remember(history, q) ==
    LET h == Append(history, q)
    IN  IF Len(h) > HISTORY_LEN THEN Tail(h) ELSE h

\* The agent's fields, the cache of its tools included.
AgentState(waiting, temp, creds, history, topic, static, dynamic) ==
    [waiting_for_credential |-> waiting, temp_username |-> temp,
     portal_credentials |-> creds, conversation_history |-> history,
     last_topic |-> topic, static_cache |-> static, dynamic_cache |-> dynamic]

\* What a turn leaves: the agent's fields, the response, the tool the
\* router selected ("none" when the turn ended before routing), the tool
\* calls made, and the result of the last one.
Outcome(st, response, selected, calls, result) ==
    [state |-> st, response |-> response, selected |-> selected,
     calls |-> calls, result |-> result]

\* The portal branch without stored credentials: enable the login state and
\* ask for the roll number; no tool is called.
ask_for_roll_number_stay_idle(st) ==
    Outcome(st, ROLL_NUMBER_PROMPT, "query_student_portal", << >>, NoValue)

ask_for_roll_number(st) ==
    Outcome([st EXCEPT !.waiting_for_credential = TRUE],
            ROLL_NUMBER_PROMPT, "query_student_portal", << >>, NoValue)

\* The try block without the search after a static miss
RunTool_static_only(st, query, tool_name, data_type, llm_available, t, ext, ext2, llm) ==
    LET static == st.static_cache
        dynamic == st.dynamic_cache
        \* result = self.tools.<name>(...), then the code after the branches
        Done(name, returned, calls) ==
            Only({Outcome([st EXCEPT !.static_cache = ret.static,
                                     !.dynamic_cache = ret.dynamic],
                          format_response(ret.result, name, llm_available, llm),
                          tool_name, calls, ret.result) : ret \in {returned}})
    IN  CASE tool_name = "check_static_facts" ->
               Done("check_static_facts",
                    check_static_facts(query, static, dynamic),
                    <<Call("check_static_facts", <<query>>)>>)
          [] tool_name = "scrape_latest_notices" ->
               Done(tool_name, scrape_latest_notices(static, dynamic, t, ext),
                    <<Call(tool_name, << >>)>>)
          [] tool_name = "scrape_placements" ->
               Done(tool_name, scrape_placements(static, dynamic, t, ext, ext2),
                    <<Call(tool_name, << >>)>>)
          [] tool_name = "query_database" ->
               Done(tool_name, query_database(query, static, dynamic, t, ext),
                    <<Call(tool_name, <<query>>)>>)
          [] tool_name = "query_student_portal" ->
               IF st.portal_credentials = None
               THEN ask_for_roll_number(st)
               ELSE LET username == st.portal_credentials[1]
                        password == st.portal_credentials[2]
                        portal_type == st.portal_credentials[3]
                    IN  Done(tool_name,
                             query_student_portal(username, password, data_type,
                                                  portal_type, static, dynamic,
                                                  t, ext),
                             <<Call(tool_name, <<username, password, data_type,
                                                 portal_type>>)>>)

\* The try block of __call__: run the selected tool on query.
RunTool(st, query, tool_name, data_type, llm_available, t, ext, ext2, llm) ==
    LET static == st.static_cache
        dynamic == st.dynamic_cache
        \* result = self.tools.<name>(...), then the code after the branches
        Done(name, returned, calls) ==
            Only({Outcome([st EXCEPT !.static_cache = ret.static,
                                     !.dynamic_cache = ret.dynamic],
                          format_response(ret.result, name, llm_available, llm),
                          tool_name, calls, ret.result) : ret \in {returned}})
    IN  CASE tool_name = "check_static_facts" ->
               Only({IF r1.result.success
                     THEN Done("check_static_facts", r1,
                               <<Call("check_static_facts", <<query>>)>>)
                     ELSE Done("search_website",
                               search_website(query, r1.static, r1.dynamic,
                                              t, ext2),
                               <<Call("check_static_facts", <<query>>),
                                 Call("search_website", <<query>>)>>)
                       : r1 \in {check_static_facts(query, static, dynamic)}})
          [] tool_name = "scrape_latest_notices" ->
               Done(tool_name, scrape_latest_notices(static, dynamic, t, ext),
                    <<Call(tool_name, << >>)>>)
          [] tool_name = "scrape_placements" ->
               Done(tool_name, scrape_placements(static, dynamic, t, ext, ext2),
                    <<Call(tool_name, << >>)>>)
          [] tool_name = "query_database" ->
               Done(tool_name, query_database(query, static, dynamic, t, ext),
                    <<Call(tool_name, <<query>>)>>)
          [] tool_name = "query_student_portal" ->
               IF st.portal_credentials = None
               THEN ask_for_roll_number(st)
               ELSE LET username == st.portal_credentials[1]
                        password == st.portal_credentials[2]
                        portal_type == st.portal_credentials[3]
                    IN  Done(tool_name,
                             query_student_portal(username, password, data_type,
                                                  portal_type, static, dynamic,
                                                  t, ext),
                             <<Call(tool_name, <<username, password, data_type,
                                                 portal_type>>)>>)

\* if not self.temp_username
NoUsername(temp) == temp = None \/ temp = << >>

\* __call__ without the reset of temp_username in the password branch
agent_step_keep_username(st, plan, llm_available, t, ext, ext2, llm) ==
    LET st1 == [st EXCEPT !.last_topic = plan.last_topic]
        \* the login block, for a turn that reaches it with a username pending
        password == plan.credential
        st2 == IF st1.waiting_for_credential
               THEN [st1 EXCEPT
                       !.portal_credentials =
                           <<st1.temp_username, password, <<"a", "u", "t", "o", "n", "o", "m", "o", "u", "s">>>>,
                       !.waiting_for_credential = FALSE]
               ELSE st1
        routed == IF st1.waiting_for_credential THEN RESULTS_PLAN ELSE plan
        st3 == [st2 EXCEPT
                  !.conversation_history = Remember(@, plan.original_query)]
    IN  IF plan.stripped = << >>
        THEN Outcome(st, EMPTY_QUERY, "none", << >>, NoValue)
        ELSE IF plan.greeting
        THEN Outcome(st, GREETING, "none", << >>, NoValue)
        ELSE IF ~plan.in_scope
        THEN Outcome(st1, SCOPE_REJECT, "none", << >>, NoValue)
        ELSE IF st1.waiting_for_credential /\ NoUsername(st1.temp_username)
        THEN Outcome([st1 EXCEPT !.temp_username = ToUpper(plan.credential)],
                     PASSWORD_PROMPT, "none", << >>, NoValue)
        ELSE Only({RunTool(s, routed.query, routed.tool, routed.data_type,
                           llm_available, t, ext, ext2, llm) : s \in {st3}})

\* __call__ after strip, translation and the derivations of PlanOf
agent_step(st, plan, llm_available, t, ext, ext2, llm) ==
    LET st1 == [st EXCEPT !.last_topic = plan.last_topic]
        \* the login block, for a turn that reaches it with a username pending
        password == plan.credential
        st2 == IF st1.waiting_for_credential
               THEN [st1 EXCEPT
                       !.portal_credentials =
                           <<st1.temp_username, password, <<"a", "u", "t", "o", "n", "o", "m", "o", "u", "s">>>>,
                       !.waiting_for_credential = FALSE,
                       !.temp_username = None]
               ELSE st1
        routed == IF st1.waiting_for_credential THEN RESULTS_PLAN ELSE plan
        st3 == [st2 EXCEPT
                  !.conversation_history = Remember(@, plan.original_query)]
    IN  IF plan.stripped = << >>
        THEN Outcome(st, EMPTY_QUERY, "none", << >>, NoValue)
        ELSE IF plan.greeting
        THEN Outcome(st, GREETING, "none", << >>, NoValue)
        ELSE IF ~plan.in_scope
        THEN Outcome(st1, SCOPE_REJECT, "none", << >>, NoValue)
        ELSE IF st1.waiting_for_credential /\ NoUsername(st1.temp_username)
        THEN Outcome([st1 EXCEPT !.temp_username = ToUpper(plan.credential)],
                     PASSWORD_PROMPT, "none", << >>, NoValue)
        ELSE Only({RunTool(s, routed.query, routed.tool, routed.data_type,
                           llm_available, t, ext, ext2, llm) : s \in {st3}})

agent_call(st, message, llm_available, t, ext, ext2, llm) ==
    Only({agent_step(st, plan, llm_available, t, ext, ext2, llm)
            : plan \in {PlanOf(message, st.last_topic)}})

----------------------------------------------------------------------------
(* State                                                                   *)

VARIABLES
    waiting_for_credential,  \* SimplifiedMCPAgent.waiting_for_credential
    temp_username,           \* SimplifiedMCPAgent.temp_username
    portal_credentials,      \* CollegeMCPTools.portal_credentials
    conversation_history,    \* SimplifiedMCPAgent.conversation_history
    last_topic,              \* SimplifiedMCPAgent.last_topic
    llm_available,           \* SimplifiedMCPAgent.llm_available
    static_cache,            \* TwoTierCache.static_cache
    dynamic_cache,           \* TwoTierCache.dynamic_cache
    now,                     \* time.time(), in seconds
    last,                    \* the operation that ran last and what it returned
    owner,                   \* which session's messages the login data came from
    first_response,          \* the first response to each query answered
                             \* from the static facts
    turns,                   \* number of requests so far
    ticks,                   \* number of clock readings that moved the clock
    threads,                 \* the tool calls of the request threads that run
                             \* concurrently, each with its position and locals
    response_cache           \* ResponseCache.cache, in the order of its keys

agentVars == <<waiting_for_credential, temp_username, portal_credentials,
               conversation_history, last_topic, llm_available>>
cacheVars == <<static_cache, dynamic_cache>>
vars == <<agentVars, cacheVars, now, last, owner, first_response, turns,
          ticks, threads, response_cache>>

\* Bounds of the model
MaxTurns == 3
MaxRequests == 3
MaxCacheOps == 4
MaxToolCalls == 3
NumSessions == 2
NumVersions == 1
NumLlmTexts == 1
MaxTicks == 1
MaxRoutes == 3
MaxChatTurns == 2
MaxCancelTurns == 3
NumThreads == 2
MaxSearches == 2
MaxK == 3
MaxRaise == 3
MaxHistoryTurns == 4
MaxResponseOps == 3

\* The request threads of the server
ThreadIds == 1..NumThreads

\* A thread that is not in a tool call
IdleThread ==
    [pc |-> "idle", tool |-> "none", seen |-> EmptyCache, value |-> NoValue,
     ts |-> 0, wrote |-> NoValue, seq |-> 0, result |-> NoValue]

SessionIds == 1..NumSessions
Versions == 1..NumVersions
LlmTexts == 0..NumLlmTexts

\* The agent as one value, for agent_call
TheAgent ==
    AgentState(waiting_for_credential, temp_username, portal_credentials,
               conversation_history, last_topic, static_cache, dynamic_cache)

\* The login state named by the two fields of the login flow
LoginState(waiting, temp) ==
    IF ~waiting THEN "Idle"
    ELSE IF NoUsername(temp) THEN "AwaitingUsername"
    ELSE "AwaitingPassword"

\* The login fields of the agent, as a turn finds them
LoginFields(st) ==
    [waiting_for_credential |-> st.waiting_for_credential,
     temp_username |-> st.temp_username,
     portal_credentials |-> st.portal_credentials,
     last_topic |-> st.last_topic]

Init ==
    /\ waiting_for_credential = FALSE
    /\ temp_username = None
    /\ portal_credentials = None
    /\ conversation_history = << >>
    /\ last_topic = None
    /\ llm_available \in BOOLEAN
    /\ static_cache = EmptyCache
    /\ dynamic_cache = EmptyCache
    /\ now = 0
    /\ last = [op |-> "none"]
    /\ ticks = 0
    /\ owner = [prompted |-> 0, username |-> 0, credentials |-> 0]
    /\ first_response = << >>
    /\ turns = 0
    /\ threads = [t \in ThreadIds |-> IdleThread]
    /\ response_cache = << >>

----------------------------------------------------------------------------
(* The clock                                                               *)

\* The instants at which the model looks at the clock: around each TTL.
TimePoints == {0, 1, PORTAL_TTL - 1, PORTAL_TTL, NOTICES_TTL - 1, NOTICES_TTL}

Tick ==
    /\ ticks < MaxTicks
    /\ \E t \in TimePoints : t > now /\ now' = t
    /\ ticks' = ticks + 1
    /\ last' = [op |-> "tick"]
    /\ UNCHANGED <<agentVars, cacheVars, owner, first_response, turns, threads,
                   response_cache>>

----------------------------------------------------------------------------
(* backend.query: every request, whatever its session_id, is answered by   *)
(* the one module-level agent.                                             *)

\* What the collaborator of each tool can do in one call
ExtOutcomes(tool_name) ==
    CASE tool_name = "check_static_facts" -> {"none"}
      [] tool_name = "scrape_latest_notices" -> {"ok", "blocked", "raise"}
      [] tool_name = "scrape_placements" -> {"ok", "blocked", "raise"}
      [] tool_name = "query_database" -> {"ok", "raise"}
      [] tool_name = "search_website" -> {"found", "not_found"}
      [] tool_name = "query_student_portal" -> {"ok", "login_failed", "raise"}
      [] OTHER -> {"none"}

Exts(tool_name) ==
    IF ExtOutcomes(tool_name) = {"none"} THEN {Ext("none", 1)}
    ELSE {Ext(o, v) : o \in ExtOutcomes(tool_name), v \in Versions}

\* The tool a second collaborator call of the turn goes to, if any
SecondTool(tool_name) ==
    CASE tool_name = "check_static_facts" -> "search_website"
      [] tool_name = "scrape_placements" -> "query_database"
      [] OTHER -> "none"

\* Who the login data belongs to after a turn of session sid
OwnerAfter(sid, out) ==
    LET st == out.state
    IN  [prompted |->
             IF st.waiting_for_credential /\ ~waiting_for_credential
             THEN sid ELSE owner.prompted,
         username |->
             IF st.temp_username # temp_username /\ st.temp_username # None
             THEN sid ELSE owner.username,
         credentials |->
             IF st.portal_credentials # portal_credentials
             THEN sid ELSE owner.credentials]

\* The turn was answered by check_static_facts alone
StaticHit(out) ==
    out.selected = "check_static_facts" /\ Len(out.calls) = 1

\* What chatbot(message) can return and leave behind when the collaborators
\* behave as ext and ext2: one outcome when the turn does not ask the LLM
\* formatter, one per wording of the formatter when it does.
Outcomes(message, ext, ext2) ==
    LET Run(llm) == agent_call(TheAgent, message, llm_available, now,
                               ext, ext2, llm)
    IN  {Run(llm) : llm \in LlmTexts}

\* One request: chatbot(message) run to its return.
Query(sid, message) ==
    /\ \E routed \in {agent_call(TheAgent, message, llm_available, now,
                                   Ext("none", 1), Ext("none", 1), 0).selected} :
         \E ext \in Exts(routed), ext2 \in Exts(SecondTool(routed)) :
           \E out \in Outcomes(message, ext, ext2) :
                 /\ waiting_for_credential' = out.state.waiting_for_credential
                 /\ temp_username' = out.state.temp_username
                 /\ portal_credentials' = out.state.portal_credentials
                 /\ conversation_history' = out.state.conversation_history
                 /\ last_topic' = out.state.last_topic
                 /\ static_cache' = out.state.static_cache
                 /\ dynamic_cache' = out.state.dynamic_cache
                 /\ last' = [op |-> "query", sid |-> sid, message |-> message,
                             pre |-> LoginFields(TheAgent),
                             response |-> out.response,
                             selected |-> out.selected, calls |-> out.calls,
                             result |-> out.result, ext |-> ext.outcome,
                             cache_changed |->
                                 \/ out.state.static_cache # static_cache
                                 \/ out.state.dynamic_cache # dynamic_cache,
                             history_before |-> conversation_history]
                 /\ owner' = OwnerAfter(sid, out)
                 /\ first_response' =
                        IF StaticHit(out) /\ out.calls[1].args[1]
                                               \notin DOMAIN first_response
                        THEN Put(first_response, out.calls[1].args[1],
                                 out.response)
                        ELSE first_response
                 /\ turns' = turns + 1
    /\ UNCHANGED <<llm_available, now, ticks, threads, response_cache>>

----------------------------------------------------------------------------
(* One conversation with the agent: the requests of one client of /query  *)

Turn == turns < MaxTurns /\ \E message \in Messages : Query(1, message)

Next == Turn \/ Tick

Spec == Init /\ [][Next]_vars

----------------------------------------------------------------------------
(* Several sessions posting to /query                                      *)

BackendMessages == {M_RESULTS, M_ROLL, M_SECRET}

Request ==
    /\ turns < MaxRequests
    /\ \E sid \in SessionIds, message \in BackendMessages : Query(sid, message)

NextBackend == Request

SpecBackend == Init /\ [][NextBackend]_vars

----------------------------------------------------------------------------
(* TwoTierCache used on its own                                            *)

CacheKeys == {<<"l", "a", "t", "e", "s", "t", "_", "n", "o", "t", "i", "c", "e", "s">>, <<"p", "l", "a", "c", "e", "m", "e", "n", "t", "s">>}
CacheValues == {Payload("value", v) : v \in Versions}
CallSiteTtls == {PORTAL_TTL, NOTICES_TTL}

CacheOp(op, key, ttl, ret) == [op |-> op, key |-> key, ttl |-> ttl, ret |-> ret]

GetStatic ==
    /\ turns < MaxCacheOps
    /\ \E key \in CacheKeys :
         last' = CacheOp("get_static", key, 0, get_static(static_cache, key))
    /\ turns' = turns + 1
    /\ UNCHANGED <<agentVars, cacheVars, now, owner, first_response, ticks, threads, response_cache>>

SetStatic ==
    /\ turns < MaxCacheOps
    /\ \E key \in CacheKeys, value \in CacheValues :
         /\ static_cache' = set_static(static_cache, key, value)
         /\ last' = CacheOp("set_static", key, 0, value)
    /\ turns' = turns + 1
    /\ UNCHANGED <<agentVars, dynamic_cache, now, owner, first_response, ticks, threads, response_cache>>

GetDynamic ==
    /\ turns < MaxCacheOps
    /\ \E key \in CacheKeys, ttl \in CallSiteTtls :
         last' = CacheOp("get_dynamic", key, ttl,
                         get_dynamic(dynamic_cache, key, ttl, now))
    /\ turns' = turns + 1
    /\ UNCHANGED <<agentVars, cacheVars, now, owner, first_response, ticks, threads, response_cache>>

SetDynamic ==
    /\ turns < MaxCacheOps
    /\ \E key \in CacheKeys, value \in CacheValues :
         /\ dynamic_cache' = set_dynamic(dynamic_cache, key, value, now)
         /\ last' = CacheOp("set_dynamic", key, 0, value)
    /\ turns' = turns + 1
    /\ UNCHANGED <<agentVars, static_cache, now, owner, first_response, ticks, threads, response_cache>>

NextCache == GetStatic \/ SetStatic \/ GetDynamic \/ SetDynamic \/ Tick

SpecCache == Init /\ [][NextCache]_vars

----------------------------------------------------------------------------
(* CollegeMCPTools called directly                                         *)

ToolCall(tool, query, ret, ext) ==
    [op |-> "tool", tool |-> tool, query |-> query, result |-> ret.result,
     ext |-> ext.outcome, pre |-> [static_cache |-> static_cache,
                           dynamic_cache |-> dynamic_cache]]

\* The frame of a direct tool call that returned ret
Returned(tool, query, ret, ext) ==
    /\ static_cache' = ret.static
    /\ dynamic_cache' = ret.dynamic
    /\ last' = ToolCall(tool, query, ret, ext)
    /\ turns' = turns + 1
    /\ UNCHANGED <<agentVars, now, owner, first_response, ticks, threads, response_cache>>

CheckStaticFacts ==
    /\ turns < MaxToolCalls
    /\ \E query \in ToolQueries :
         Returned("check_static_facts", query,
                  check_static_facts(query, static_cache, dynamic_cache),
                  Ext("none", 1))

ScrapeLatestNotices ==
    /\ turns < MaxToolCalls
    /\ \E ext \in Exts("scrape_latest_notices") :
         Returned("scrape_latest_notices", << >>,
                  scrape_latest_notices(static_cache, dynamic_cache, now, ext),
                  ext)

ScrapePlacements ==
    /\ turns < MaxToolCalls
    /\ \E ext \in Exts("scrape_placements"), dbext \in Exts("query_database") :
         Returned("scrape_placements", << >>,
                  scrape_placements(static_cache, dynamic_cache, now, ext, dbext),
                  ext)

QueryDatabase ==
    /\ turns < MaxToolCalls
    /\ \E ext \in Exts("query_database") :
         Returned("query_database", T_OTHER,
                  query_database(T_OTHER, static_cache, dynamic_cache, now, ext),
                  ext)

SearchWebsite ==
    /\ turns < MaxToolCalls
    /\ \E ext \in Exts("search_website") :
         Returned("search_website", T_OTHER,
                  search_website(T_OTHER, static_cache, dynamic_cache, now, ext),
                  ext)

QueryStudentPortal ==
    /\ turns < MaxToolCalls
    /\ \E ext \in Exts("query_student_portal"),
          data_type \in {<<"r", "e", "s", "u", "l", "t", "s">>, <<"d", "a", "s", "h", "b", "o", "a", "r", "d">>} :
         Returned("query_student_portal", data_type,
                  query_student_portal(T_USER, M_SECRET, data_type,
                                       <<"a", "u", "t", "o", "n", "o", "m", "o", "u", "s">>, static_cache,
                                       dynamic_cache, now, ext),
                  ext)

NextTools ==
    \/ CheckStaticFacts \/ ScrapeLatestNotices \/ ScrapePlacements
    \/ QueryDatabase \/ SearchWebsite \/ QueryStudentPortal \/ Tick

SpecTools == Init /\ [][NextTools]_vars

----------------------------------------------------------------------------
(* The static facts, asked through the agent and through the tool          *)

StaticMessages == {M_PRINCIPAL, M_FEE}

StaticTurn ==
    /\ turns < MaxToolCalls
    /\ \E message \in StaticMessages : Query(1, message)

NextStatic == CheckStaticFacts \/ StaticTurn

SpecStatic == Init /\ [][NextStatic]_vars

----------------------------------------------------------------------------
(* Properties of the login flow                                            *)

\* The last operation was a request that found the login flow in state s
TurnFrom(s) ==
    /\ last.op = "query"
    /\ LoginState(last.pre.waiting_for_credential, last.pre.temp_username) = s

\* The last request called the portal tool
PortalCalled ==
    /\ last.op = "query"
    /\ \E i \in 1..Len(last.calls) : last.calls[i].tool = "query_student_portal"

\* C1: a non-empty message that arrives while the login state is not Idle
\* is consumed as a credential (the username when none is pending, else the
\* password) and is never answered as a greeting or rejected by the scope
\* check.
C1_CredentialPreemptsRouting ==
    (/\ last.op = "query"
     /\ last.pre.waiting_for_credential
     /\ Strip(last.message) # << >>)
    => /\ last.response \notin {GREETING, SCOPE_REJECT}
       /\ IF NoUsername(last.pre.temp_username)
          THEN last.response = PASSWORD_PROMPT /\ ~NoUsername(temp_username)
          ELSE /\ portal_credentials # None
               /\ portal_credentials[1] = last.pre.temp_username

\* C2: from Idle with no stored credentials, a turn whose query selects the
\* portal tool ends in AwaitingUsername with the roll-number prompt, calls
\* no tool and stores nothing as username or credentials.
C2_PortalWithoutCredentialsPrompts ==
    (/\ TurnFrom("Idle")
     /\ last.pre.portal_credentials = None
     /\ last.selected = "query_student_portal")
    => /\ LoginState(waiting_for_credential, temp_username) = "AwaitingUsername"
       /\ last.response = ROLL_NUMBER_PROMPT
       /\ last.calls = << >>
       /\ temp_username = None
       /\ portal_credentials = None

C2_Witness ==
    /\ TurnFrom("Idle")
    /\ last.pre.portal_credentials = None
    /\ last.selected = "query_student_portal"
    /\ last.message = M_RESULTS
    /\ last.response = ROLL_NUMBER_PROMPT
    /\ waiting_for_credential

\* C3: the username a turn stores in AwaitingUsername is the inbound message
\* upper-cased and otherwise unchanged.
C3_UsernameIsMessageUpperCased ==
    (TurnFrom("AwaitingUsername") /\ last.response = PASSWORD_PROMPT)
    => temp_username = ToUpper(Strip(last.message))

\* C4: a turn in AwaitingPassword with pending username U and message P
\* stores the credentials (U, P, portal kind), makes exactly one portal call
\* with U and P, and ends in Idle with the pending username cleared.
C4_PasswordTurnLogsIn ==
    (TurnFrom("AwaitingPassword") /\ Strip(last.message) # << >>)
    => /\ portal_credentials =
              <<last.pre.temp_username, Strip(last.message), <<"a", "u", "t", "o", "n", "o", "m", "o", "u", "s">>>>
       /\ Len(last.calls) = 1
       /\ last.calls[1].tool = "query_student_portal"
       /\ last.calls[1].args[1] = last.pre.temp_username
       /\ last.calls[1].args[2] = Strip(last.message)
       /\ LoginState(waiting_for_credential, temp_username) = "Idle"
       /\ temp_username = None

\* C5: when the portal login fails, the turn ends in Idle with no pending
\* username and no stored credentials, after a single portal call.
C5_FailedLoginClearsCredentials ==
    (PortalCalled /\ last.ext = "login_failed" /\ ~last.result.success)
    => /\ LoginState(waiting_for_credential, temp_username) = "Idle"
       /\ temp_username = None
       /\ portal_credentials = None
       /\ Len(last.calls) = 1

\* C6: sessions are independent: the message stored as pending username
\* comes from the session that was asked for it, and a portal call runs
\* with credentials entered by the session that makes the request.
C6_SessionsIndependent ==
    /\ (waiting_for_credential /\ ~NoUsername(temp_username))
           => owner.username = owner.prompted
    /\ PortalCalled => owner.credentials = last.sid

----------------------------------------------------------------------------
(* Properties of the cache                                                 *)

\* Age of the dynamic entry under key, for a key that has one
Age(key) == now - dynamic_cache[key].timestamp

C8_ExpiredReadEvicts ==
    (last.op = "get_dynamic" /\ last.ret = NoValue)
    => last.key \notin DOMAIN dynamic_cache

\* C9: no key is in the static tier and in the dynamic tier at once.
C9_OneTierPerKey ==
    (DOMAIN static_cache) \cap (DOMAIN dynamic_cache) = {}

----------------------------------------------------------------------------
(* Properties of the static facts                                          *)

\* The last operation was a direct check_static_facts call whose query
\* matches a static-fact rule
StaticFactCall ==
    /\ last.op = "tool"
    /\ last.tool = "check_static_facts"
    /\ StaticRuleOf(ToLower(last.query)) # NoValue

\* The last operation was a turn answered by check_static_facts for a query
\* the agent had passed to it before
RepeatedStaticTurn ==
    /\ last.op = "query"
    /\ StaticHit(last)
    /\ last.result.cached

\* C10: a check_static_facts call for a query that matches a rule succeeds,
\* leaves a static entry under the lower-cased, trimmed query, is served
\* from the cache exactly when that entry existed before the call, and the
\* agent's response to a repeated query equals its first response.
C10_StaticFactCachedByTrimmedQuery ==
    /\ StaticFactCall
       => LET key == Strip(ToLower(last.query))
          IN  /\ last.result.success
              /\ key \in DOMAIN static_cache
              /\ last.result.data = static_cache[key]
              /\ last.result.cached <=> key \in DOMAIN last.pre.static_cache
    /\ RepeatedStaticTurn
       => last.response = first_response[last.calls[1].args[1]]

----------------------------------------------------------------------------
(* The router on its own: _resolve_context and _select_tool applied to     *)
(* the queries of a conversation                                           *)

Q_ALL == <<"l", "a", "t", "e", "s", "t", " ", "p", "l", "a", "c", "e", "m", "e", "n", "t", " ", "s", "t", "a", "t", "i", "s", "t", "i", "c", "s", " ", "a", "n", "d", " ", "m", "y", " ", "r", "e", "s", "u", "l", "t", "s">>
Q_MY_RESULT_PLACEMENT == <<"m", "y", " ", "r", "e", "s", "u", "l", "t", "s", " ", "a", "f", "t", "e", "r", " ", "p", "l", "a", "c", "e", "m", "e", "n", "t">>
Q_ROLL_RESULT == <<"r", "e", "s", "u", "l", "t", " ", "o", "f", " ", "2", "2", "k", "9", "1", "a", "0", "5", "c", "0", " ", "p", "l", "a", "c", "e", "d">>
Q_HOW_MANY_PLACED == <<"H", "o", "w", " ", "m", "a", "n", "y", " ", "s", "t", "u", "d", "e", "n", "t", "s", " ", "g", "o", "t", " ", "p", "l", "a", "c", "e", "d", "?">>
Q_COMPANY_RATE == <<"c", "o", "m", "p", "a", "n", "y", " ", "h", "i", "r", "i", "n", "g", " ", "r", "a", "t", "e">>
Q_ADMISSION == <<"a", "d", "m", "i", "s", "s", "i", "o", "n", " ", "p", "r", "o", "c", "e", "s", "s">>
Q_HOD == <<"h", "o", "d", " ", "o", "f", " ", "c", "s", "e">>
Q_WHAT_ABOUT == <<"w", "h", "a", "t", " ", "a", "b", "o", "u", "t", " ", "C", "S", "E", "?">>
Q_AND == <<"a", "n", "d", " ", "e", "c", "e">>
Q_ALSO == <<"a", "l", "s", "o", " ", "m", "e", "c", "h">>
Q_HOW_ABOUT == <<"h", "o", "w", " ", "a", "b", "o", "u", "t", " ", "c", "i", "v", "i", "l">>
Q_LIBRARY == <<"l", "i", "b", "r", "a", "r", "y", " ", "t", "i", "m", "i", "n", "g", "s">>

Q_AND_TWICE == <<"a", "n", "d", " ", "e", "c", "e", " ", "a", "n", "d", " ", "e", "e", "e">>

RouterQueries ==
    {Q_ALL, Q_NEW_JOB, Q_MY_RESULT_PLACEMENT, Q_ROLL_RESULT, Q_HOW_MANY_PLACED,
     Q_COMPANY_RATE, Q_AVERAGE, Q_PLACEMENT, Q_ADMISSION, Q_HOD, Q_WHAT_ABOUT,
     Q_AND, Q_ALSO, Q_HOW_ABOUT, Q_LIBRARY, M_FEE, Q_AND_TWICE}

\* query = self._resolve_context(query)
ResolveContext ==
    /\ turns < MaxRoutes
    /\ \E query \in RouterQueries :
         \E rc \in {resolve_context(query, last_topic)} :
           /\ last_topic' = rc.last_topic
           /\ last' = [op |-> "resolve_context", query |-> query,
                       pre |-> [last_topic |-> last_topic],
                       resolved |-> rc.query]
    /\ turns' = turns + 1
    /\ UNCHANGED <<waiting_for_credential, temp_username, portal_credentials,
                   conversation_history, llm_available, cacheVars, now, owner,
                   first_response, ticks, threads, response_cache>>

\* tool_name = self._select_tool(query)
SelectTool ==
    /\ turns < MaxRoutes
    /\ \E query \in RouterQueries :
         last' = [op |-> "select_tool", query |-> query,
                  tool |-> select_tool(query)]
    /\ turns' = turns + 1
    /\ UNCHANGED <<agentVars, cacheVars, now, owner, first_response, ticks, threads, response_cache>>

NextRouter == ResolveContext \/ SelectTool

SpecRouter == Init /\ [][NextRouter]_vars

----------------------------------------------------------------------------
(* Properties of the router                                                *)

\* The rules of _select_tool a query matches, by the code's tests
MatchesFreshness(query) == ContainsAny(ToLower(query), FreshKeywords)

MatchesPersonal(query) ==
    \/ ContainsAny(ToLower(query), PortalKeywords)
    \/ /\ HasRollNumber(ToLower(query))
       /\ ContainsAny(ToLower(query), {<<"r", "e", "s", "u", "l", "t">>, <<"m", "a", "r", "k">>})

MatchesPlacement(query) == ContainsAny(ToLower(query), PlacementKeywords)

MatchesAggregate(query) ==
    \/ ContainsAny(ToLower(query), SqlKeywords)
    \/ MatchesPlacement(query) /\ ContainsAny(ToLower(query), StatsKeywords)

\* The tool of the highest-priority rule that matches
PriorityTool(query) ==
    IF MatchesFreshness(query) THEN "scrape_latest_notices"
    ELSE IF MatchesPersonal(query) THEN "query_student_portal"
    ELSE IF MatchesAggregate(query) THEN "query_database"
    ELSE IF MatchesPlacement(query) THEN "scrape_placements"
    ELSE "check_static_facts"

HasAggregateKeyword(query) ==
    ContainsAny(ToLower(query), SqlKeywords \cup StatsKeywords)

\* C12: a query with an aggregate keyword and a placement keyword, and no
\* freshness or personal-data match, is routed to query_database, never to
\* scrape_placements.
C12_AggregatePlacementToDatabase ==
    (/\ last.op = "select_tool"
     /\ HasAggregateKeyword(last.query)
     /\ MatchesPlacement(last.query)
     /\ ~MatchesFreshness(last.query)
     /\ ~MatchesPersonal(last.query))
    => last.tool = "query_database"

C12_Witness ==
    /\ last.op = "select_tool"
    /\ last.query = Q_HOW_MANY_PLACED
    /\ HasAggregateKeyword(last.query)
    /\ MatchesPlacement(last.query)
    /\ ~MatchesFreshness(last.query)
    /\ ~MatchesPersonal(last.query)
    /\ last.tool = "query_database"

----------------------------------------------------------------------------
(* Properties of a turn's tool calls                                       *)

\* The last operation was a turn routed to check_static_facts
DefaultRouteTaken ==
    /\ last.op = "query"
    /\ last.selected = "check_static_facts"
    /\ Len(last.calls) >= 1
    /\ last.calls[1].tool = "check_static_facts"

\* C13: on the default route a static miss is followed, in the same turn, by
\* search_website with the same query: a turn that made the static call
\* alone was answered by it, and the failure answer comes only after the
\* search.
C13_StaticMissSearches ==
    DefaultRouteTaken
    => /\ Len(last.calls) = 1 => last.result.success /\ last.response # NOT_FOUND
       /\ Len(last.calls) > 1
            => /\ Len(last.calls) = 2
               /\ last.calls[2].tool = "search_website"
               /\ last.calls[2].args = last.calls[1].args
       /\ last.response = NOT_FOUND => Len(last.calls) = 2

C13_Witness ==
    /\ DefaultRouteTaken
    /\ last.message = M_ROLL
    /\ Len(last.calls) = 2
    /\ last.calls[2] = Call("search_website", last.calls[1].args)
    /\ ~last.result.success
    /\ last.response = NOT_FOUND

----------------------------------------------------------------------------
(* A short conversation that reaches every tool of the agent               *)

ChatMessages ==
    {M_HELLO, M_EQ, M_FEE, M_ANDY, M_RESULTS, M_SECRET, Q_NEW_JOB, Q_PLACEMENT,
     Q_AVERAGE, M_HOW_R_U, M_SQUARE, M_SOLVE, M_PHOTOSYNTHESIS}

Chat ==
    /\ turns < MaxChatTurns
    /\ \E message \in ChatMessages : Query(1, message)

NextChat == Chat

SpecChat == Init /\ [][NextChat]_vars

----------------------------------------------------------------------------
(* Properties of the answers                                               *)

\* What __call__ derives from the message of the last turn
LastPlan == PlanOf(last.message, last.pre.last_topic)

\* The message of the last turn is one of the greetings, whatever its case
GreetingTurn ==
    /\ last.op = "query"
    /\ ToLower(Strip(last.message)) \in Greetings

\* The resolved query of the last turn holds a non-college keyword and
\* names neither the college nor TKRCET
ScopeRejectedTurn ==
    /\ last.op = "query"
    /\ Strip(last.message) # << >>
    /\ ~GreetingTurn
    /\ ContainsAny(ToLower(LastPlan.query), NonCollege)
    /\ ~ContainsAny(ToLower(LastPlan.query), {<<"c", "o", "l", "l", "e", "g", "e">>, <<"t", "k", "r", "c", "e", "t">>})

----------------------------------------------------------------------------
(* The text of a response                                                  *)

\* len() of the fixed sentences __call__ and _format_response return
CannedLen ==
    [please_enter_a_question |-> 24, greeting |-> 64, scope_reject |-> 199,
     password_prompt |-> 39, roll_number_prompt |-> 110,
     could_not_find |-> 121, no_recent_notices |-> 95]

\* The least len(raw_data) _format_response can build for a tool from the
\* payload of its result: result.get(name, "") is "" for a result without
\* the payload, query_students returns no text shorter than "No placement
\* data available.", a notice line is "1. " title "\n" with a non-empty
\* title, and the text of search_website embeds the query.
RawLen(tool_name, data) ==
    CASE tool_name = "check_static_facts" ->
           IF data = NoValue THEN 0 ELSE AnswerLen(data)
      [] tool_name = "scrape_latest_notices" -> 28 + 5
      [] tool_name = "scrape_placements" -> 35
      [] tool_name = "query_database" ->
           IF data = NoValue THEN 60 ELSE 28
      [] tool_name = "search_website" ->
           IF data = NoValue THEN 0 ELSE 231 + Len(data.query)

\* The least len() of a response: the portal report starts with the login
\* line, and the formatter's wording is used only when it is not empty
\* after strip().
ResponseLen(response) ==
    CASE response.kind = "portal" -> 25
      [] response.kind = "tool" ->
           IF response.llm > 0 THEN 1
           ELSE RawLen(response.tool, response.data)
      [] OTHER -> CannedLen[response.kind]

\* The tool call of the last turn failed: it returned success False, which
\* is also what a tool returns when its collaborator raised
ToolFailed ==
    /\ last.op = "query"
    /\ last.calls # << >>
    /\ ~last.result.success

\* C15: every response of __call__ is a non-empty string; when the tool of
\* the turn returns success False or its collaborator raises, the call
\* still returns and the response is the complete failure sentence.
C15_ResponseNeverEmpty ==
    last.op = "query"
    => /\ ResponseLen(last.response) > 0
       /\ ToolFailed => last.response = NOT_FOUND

\* A turn whose scraper raised: the user is given the failure sentence
C15_Witness ==
    /\ ToolFailed
    /\ last.ext = "raise"
    /\ last.selected = "scrape_latest_notices"
    /\ last.response = NOT_FOUND
    /\ ResponseLen(last.response) = 121

----------------------------------------------------------------------------
(* Properties of the firewall fallback                                     *)

\* The last operation was a scraper call that fetched a page carrying a
\* firewall marker
BlockedScrape ==
    /\ last.op = "tool"
    /\ last.tool \in {"scrape_latest_notices", "scrape_placements"}
    /\ last.ext = "blocked"
    /\ ~(last.result.success /\ last.result.cached)

\* The cached value is the text of a blocked page
IsBlockedPage(v) == v.kind = "payload" /\ v.source = "blocked_page"

\* C16: a scraper whose page carries a firewall marker falls back to the
\* database tool within the same call and returns the database result, not
\* an error or the blocked page; the blocked page is never written to the
\* cache.
C16_FirewallFallsBackToDatabase ==
    /\ BlockedScrape
       => /\ last.result.success
          /\ last.result.data.kind = "fallback"
    /\ \A key \in DOMAIN dynamic_cache :
         ~IsBlockedPage(dynamic_cache[key].value)

----------------------------------------------------------------------------
(* A turn seen in two steps: __call__ up to its tool call, and the tool    *)
(* call returning, or the turn being abandoned while the call is in flight *)

\* The agent's fields when __call__ reaches the tool call of the try block:
\* _resolve_context has updated last_topic, the login block has stored the
\* credentials of a password turn and reset the login state, and the
\* message has been appended to the history.
state_at_tool_call(st, plan) ==
    LET st1 == [st EXCEPT !.last_topic = plan.last_topic]
        st2 == IF st1.waiting_for_credential
               THEN [st1 EXCEPT
                       !.portal_credentials =
                           <<st1.temp_username, plan.credential, <<"a", "u", "t", "o", "n", "o", "m", "o", "u", "s">>>>,
                       !.waiting_for_credential = FALSE,
                       !.temp_username = None]
               ELSE st1
    IN  [st2 EXCEPT !.conversation_history = Remember(@, plan.original_query)]

\* The session fields of an agent state
SessionFields(st) ==
    [waiting_for_credential |-> st.waiting_for_credential,
     temp_username |-> st.temp_username,
     portal_credentials |-> st.portal_credentials,
     conversation_history |-> st.conversation_history,
     last_topic |-> st.last_topic]

CancelMessages == {M_FEE, M_RESULTS, M_ROLL, M_SECRET, M_PRINCIPAL}

\* The turn for message calls a tool
CallsTool(message) ==
    agent_call(TheAgent, message, llm_available, now,
               Ext("none", 1), Ext("none", 1), 0).calls # << >>

\* A turn that returns before the try block calls a tool
ShortTurn ==
    /\ turns < MaxCancelTurns
    /\ last.op # "in_flight"
    /\ \E message \in CancelMessages :
         /\ ~CallsTool(message)
         /\ Query(1, message)

\* __call__ runs up to the tool call and waits for the tool
StartTurn ==
    /\ turns < MaxCancelTurns
    /\ last.op # "in_flight"
    /\ \E message \in CancelMessages :
         /\ CallsTool(message)
         /\ \E at_call \in {state_at_tool_call(TheAgent, PlanOf(message, last_topic))} :
              /\ waiting_for_credential' = at_call.waiting_for_credential
              /\ temp_username' = at_call.temp_username
              /\ portal_credentials' = at_call.portal_credentials
              /\ conversation_history' = at_call.conversation_history
              /\ last_topic' = at_call.last_topic
         /\ last' = [op |-> "in_flight", sid |-> 1, message |-> message,
                     start |-> TheAgent]
    /\ turns' = turns + 1
    /\ UNCHANGED <<llm_available, cacheVars, now, owner, first_response, ticks, threads, response_cache>>

\* The tool call returns and __call__ runs to its return
ToolReturns ==
    /\ last.op = "in_flight"
    /\ \E routed \in {agent_call(last.start, last.message, llm_available, now, Ext("none", 1), Ext("none", 1), 0).selected} :
         \E ext \in Exts(routed), ext2 \in Exts(SecondTool(routed)) :
           \E out \in {agent_call(last.start, last.message, llm_available, now, ext, ext2, llm) : llm \in LlmTexts} :
                 /\ waiting_for_credential' = out.state.waiting_for_credential
                 /\ temp_username' = out.state.temp_username
                 /\ portal_credentials' = out.state.portal_credentials
                 /\ conversation_history' = out.state.conversation_history
                 /\ last_topic' = out.state.last_topic
                 /\ static_cache' = out.state.static_cache
                 /\ dynamic_cache' = out.state.dynamic_cache
                 /\ last' = [op |-> "query", sid |-> last.sid,
                             message |-> last.message,
                             pre |-> LoginFields(last.start),
                             response |-> out.response,
                             selected |-> out.selected, calls |-> out.calls,
                             result |-> out.result, ext |-> ext.outcome,
                             cache_changed |->
                                 \/ out.state.static_cache # static_cache
                                 \/ out.state.dynamic_cache # dynamic_cache,
                             history_before |->
                                 last.start.conversation_history]
    /\ UNCHANGED <<llm_available, now, owner, first_response, turns, ticks, threads, response_cache>>

\* The transport is gone while the tool call is in flight: the call never
\* returns to __call__, and the agent keeps what it holds
Abandon ==
    /\ last.op = "in_flight"
    /\ last' = [op |-> "abandoned", sid |-> last.sid,
                message |-> last.message, start |-> last.start]
    /\ UNCHANGED <<agentVars, cacheVars, now, owner, first_response, turns, ticks, threads, response_cache>>

NextCancel == ShortTurn \/ StartTurn \/ ToolReturns \/ Abandon

SpecCancel == Init /\ [][NextCancel]_vars

\* C17: no session field is mutated before the tool call of the turn has
\* returned, so while the call is in flight, and after the turn has been
\* abandoned, the session state equals the state at the start of the turn.
C17_NoMutationBeforeToolReturns ==
    last.op \in {"in_flight", "abandoned"}
    => SessionFields(TheAgent) = SessionFields(last.start)

----------------------------------------------------------------------------
(* Tool calls of concurrent requests: the server answers each request in   *)
(* its own thread, and all threads use the cache of the one agent.  A      *)
(* thread can be preempted between any two operations on the dictionary.   *)

ConcurrentTools == {"scrape_latest_notices", "scrape_placements"}

\* cache_key of the tool
KeyOf(tool_name) ==
    IF tool_name = "scrape_latest_notices" THEN <<"l", "a", "t", "e", "s", "t", "_", "n", "o", "t", "i", "c", "e", "s">>
    ELSE <<"p", "l", "a", "c", "e", "m", "e", "n", "t", "s">>

\* ttl_seconds the tool passes to get_dynamic
TtlOf(tool_name) ==
    IF tool_name = "scrape_latest_notices" THEN NOTICES_TTL ELSE PLACEMENTS_TTL

\* What the tool's scraper delivers to thread t
FetchedBy(tool_name, t) ==
    IF tool_name = "scrape_latest_notices" THEN Payload("notices", t)
    ELSE Payload("placements", t)

\* Thread t moves to position pc with some of its locals changed
Moved(t, changes) ==
    threads' = [threads EXCEPT ![t] = changes]

ThreadFrame ==
    UNCHANGED <<agentVars, static_cache, now, last, owner, first_response, turns, ticks,
                response_cache>>

\* A request thread enters a scraping tool
BeginTool(t) ==
    /\ threads[t].pc = "idle"
    /\ \E tool_name \in ConcurrentTools :
         Moved(t, [IdleThread EXCEPT !.pc = "lookup", !.tool = tool_name])
    /\ UNCHANGED dynamic_cache
    /\ ThreadFrame

\* get_dynamic: key in self.dynamic_cache, and the entry read from it
Lookup(t) ==
    /\ threads[t].pc = "lookup"
    /\ \E key \in {KeyOf(threads[t].tool)} :
         Moved(t, [threads[t] EXCEPT
                     !.pc = "check_ttl",
                     !.seen = IF key \in DOMAIN dynamic_cache
                              THEN Put(EmptyCache, key, dynamic_cache[key])
                              ELSE EmptyCache])
    /\ UNCHANGED dynamic_cache
    /\ ThreadFrame

\* get_dynamic: the age test on the entry read, and the tool's "if cached"
CheckTtl(t) ==
    /\ threads[t].pc = "check_ttl"
    /\ \E cached \in {get_dynamic(threads[t].seen, KeyOf(threads[t].tool), TtlOf(threads[t].tool), now)} :
         IF Truthy(cached)
         THEN Moved(t, [threads[t] EXCEPT
                          !.pc = "done",
                          !.result = Result(TRUE, TRUE, cached, << >>)])
         ELSE Moved(t, [threads[t] EXCEPT !.pc = "fetch"])
    /\ UNCHANGED dynamic_cache
    /\ ThreadFrame

\* The scraper call of the thread returns a page or raises
FetchReturns(t) ==
    /\ threads[t].pc = "fetch"
    /\ \E outcome \in {"ok", "raise"} :
         IF outcome = "ok"
         THEN Moved(t, [threads[t] EXCEPT
                          !.pc = "read_clock",
                          !.value = FetchedBy(threads[t].tool, t)])
         ELSE Moved(t, [threads[t] EXCEPT
                          !.pc = "done",
                          !.result = Failure(<<"e", "x", "c", "e", "p", "t", "i", "o", "n">>)])
    /\ UNCHANGED dynamic_cache
    /\ ThreadFrame

\* set_dynamic: the tuple (value, time.time()) is built
ReadClock(t) ==
    /\ threads[t].pc = "read_clock"
    /\ Moved(t, [threads[t] EXCEPT !.pc = "store", !.ts = now])
    /\ UNCHANGED dynamic_cache
    /\ ThreadFrame

\* The stores made so far
StoresSoFar ==
    Cardinality({u \in ThreadIds : threads[u].wrote # NoValue})

\* set_dynamic: the tuple is stored under the key, and the tool returns
Store(t) ==
    /\ threads[t].pc = "store"
    /\ \E after \in {set_dynamic(dynamic_cache, KeyOf(threads[t].tool), threads[t].value, threads[t].ts)} :
         /\ dynamic_cache' = after
         /\ Moved(t, [threads[t] EXCEPT
                        !.pc = "done",
                        !.wrote = after[KeyOf(threads[t].tool)],
                        !.seq = StoresSoFar + 1,
                        !.result = Result(TRUE, FALSE, threads[t].value, << >>)])
    /\ ThreadFrame

BeginTools == \E t \in ThreadIds : BeginTool(t)
Lookups == \E t \in ThreadIds : Lookup(t)
CheckTtls == \E t \in ThreadIds : CheckTtl(t)
FetchesReturn == \E t \in ThreadIds : FetchReturns(t)
ReadClocks == \E t \in ThreadIds : ReadClock(t)
Stores == \E t \in ThreadIds : Store(t)

NextConcurrent ==
    \/ BeginTools \/ Lookups \/ CheckTtls \/ FetchesReturn \/ ReadClocks
    \/ Stores \/ Tick

SpecConcurrent == Init /\ [][NextConcurrent]_vars

----------------------------------------------------------------------------
(* Properties of the concurrent tool calls                                 *)

\* The threads that have stored an entry under key
Writers(key) ==
    {t \in ThreadIds : threads[t].wrote # NoValue /\ KeyOf(threads[t].tool) = key}

\* The thread whose store under key came last
LastWriter(key) ==
    CHOOSE t \in Writers(key) : \A u \in Writers(key) : threads[u].seq <= threads[t].seq

AllDone == \A t \in ThreadIds : threads[t].pc = "done"

\* A scraper call of some thread is in flight
InFlight == \E t \in ThreadIds : threads[t].pc = "fetch"

\* C18: after concurrent tool calls have finished, the dynamic entry of a
\* key is the (value, timestamp) pair stored by exactly one of them, the
\* one whose store came last; no store under another key is lost; and no
\* cache operation of a thread has to wait while a scraper call of another
\* thread is in flight.
C18_ConcurrentWritesLastWins ==
    /\ AllDone
       => \A key \in {KeyOf(tool_name) : tool_name \in ConcurrentTools} :
            IF Writers(key) = {} THEN key \notin DOMAIN dynamic_cache
            ELSE /\ key \in DOMAIN dynamic_cache
                 /\ dynamic_cache[key] = threads[LastWriter(key)].wrote
                 /\ dynamic_cache[key].value = FetchedBy(threads[LastWriter(key)].tool, LastWriter(key))
    /\ \A t \in ThreadIds :
         /\ threads[t].pc = "lookup" => ENABLED Lookup(t)
         /\ threads[t].pc = "store" => ENABLED Store(t)

\* Two threads raced to fill the same key, one read the clock first and
\* stored last: its pair is the entry
C18_Witness ==
    /\ AllDone
    /\ Cardinality(Writers(<<"l", "a", "t", "e", "s", "t", "_", "n", "o", "t", "i", "c", "e", "s">>)) = 2
    /\ dynamic_cache[<<"l", "a", "t", "e", "s", "t", "_", "n", "o", "t", "i", "c", "e", "s">>] = threads[LastWriter(<<"l", "a", "t", "e", "s", "t", "_", "n", "o", "t", "i", "c", "e", "s">>)].wrote
    /\ \E u \in Writers(<<"l", "a", "t", "e", "s", "t", "_", "n", "o", "t", "i", "c", "e", "s">>) :
         dynamic_cache[<<"l", "a", "t", "e", "s", "t", "_", "n", "o", "t", "i", "c", "e", "s">>].timestamp < threads[u].wrote.timestamp

----------------------------------------------------------------------------
(* Properties of the follow-up resolution                                  *)

\* The follow-up patterns the query begins with
LeadingPatterns(query) ==
    {FollowUpPatterns[i] : i \in {j \in 1..Len(FollowUpPatterns) : StartsWith(ToLower(query), FollowUpPatterns[j])}}

\* The query after its leading pattern
Remainder(query, pattern) ==
    Strip(SubSeq(query, Len(pattern) + 1, Len(query)))

\* C19: a query that begins with a follow-up pattern while a topic is
\* remembered resolves to the topic phrase, a space and the remainder of
\* the query (compared without regard to case); with no topic remembered
\* the query is returned unchanged.
C19_FollowUpResolved ==
    last.op = "resolve_context"
    => /\ last.pre.last_topic # None
          => \A pattern \in LeadingPatterns(last.query) :
               ToLower(last.resolved)
                 = ToLower(last.pre.last_topic \o <<" ">> \o Remainder(last.query, pattern))
       /\ last.pre.last_topic = None => last.resolved = last.query

----------------------------------------------------------------------------
(* RAGSystem.search: hybrid retrieval over the chunks of the knowledge     *)
(* base.  Scores are fixed-point: a semantic score s stands for s / 100,   *)
(* a BM25 score w for w / 10, a hybrid score h for h / 1000.               *)

PersonKeywords ==
    {<<"w", "h", "o">>, <<"p", "r", "i", "n", "c", "i", "p", "a", "l">>, <<"d", "i", "r", "e", "c", "t", "o", "r">>, <<"h", "o", "d">>, <<"d", "e", "a", "n">>, <<"r", "e", "g", "i", "s", "t", "r", "a", "r">>,
     <<"f", "o", "u", "n", "d", "e", "r">>, <<"n", "a", "m", "e">>, <<"h", "e", "a", "d">>, <<"p", "r", "o", "f">>, <<"p", "r", "o", "f", "e", "s", "s", "o", "r">>, <<"d", "r">>,
     <<"m", "a", "d", "a", "m">>, <<"s", "i", "r">>}

is_person_query(query) == ContainsAny(ToLower(query), PersonKeywords)

\* _expand_query_with_gemma: the query has a second variant
HasVariant(query) ==
    ContainsAny(ToLower(query), {<<"w", "h", "o", " ", "i", "s">>, <<"w", "h", "o", " ", "a", "r", "e">>, <<"h", "o", "w", " ", "t", "o">>})

\* k = min(k + 15, len(self.chunks)) for a person query
PERSON_EXTRA == 15

Min2(a, b) == IF a < b THEN a ELSE b

\* A chunk as search sees it: 1 / (1 + distance) to the query (sem) and to
\* its variant (vsem), its BM25 score (kw), whether its text carries "Dr."
\* or "Prof." (title), and whether it is a navigation menu (menu).
Chunk(sem, vsem, kw, title, menu) ==
    [sem |-> sem, vsem |-> vsem, kw |-> kw, title |-> title, menu |-> menu]

\* The knowledge bases searched in this model
Corpora ==
    << <<Chunk(90, 40, 0, TRUE, FALSE), Chunk(70, 80, 30, FALSE, FALSE),
         Chunk(50, 60, 120, FALSE, FALSE)>>,
       <<Chunk(80, 30, 20, FALSE, FALSE), Chunk(60, 90, 0, TRUE, FALSE),
         Chunk(40, 50, 60, FALSE, TRUE), Chunk(20, 10, 150, TRUE, FALSE)>>,
       <<Chunk(95, 20, 10, FALSE, FALSE), Chunk(85, 70, 0, FALSE, FALSE),
         Chunk(75, 60, 40, TRUE, FALSE), Chunk(65, 50, 0, FALSE, FALSE),
         Chunk(55, 40, 90, FALSE, FALSE)>>,
       <<Chunk(30, 35, 0, FALSE, FALSE), Chunk(45, 25, 50, TRUE, FALSE),
         Chunk(25, 15, 0, FALSE, FALSE)>> >>

\* self.index.search: the indices of the chunks, nearest first
RECURSIVE NearestFirst(_, _, _)
NearestFirst(chunks, variant, remaining) ==
    IF remaining = {} THEN << >>
    ELSE LET near(i) == IF variant THEN chunks[i].vsem ELSE chunks[i].sem
             best == CHOOSE i \in remaining :
                         \A j \in remaining :
                             near(j) < near(i) \/ (near(j) = near(i) /\ i <= j)
         IN  <<best>> \o NearestFirst(chunks, variant, remaining \ {best})

\* sorted(..., key = hybrid_score, reverse = True): stable, so equal scores
\* keep their order
RECURSIVE SortedByHybrid(_)
SortedByHybrid(results) ==
    IF results = << >> THEN << >>
    ELSE LET top == CHOOSE i \in 1..Len(results) :
                        /\ \A j \in 1..Len(results) :
                             results[j].hybrid_score <= results[i].hybrid_score
                        /\ \A j \in 1..(i - 1) :
                             results[j].hybrid_score < results[i].hybrid_score
         IN  <<results[top]>>
               \o SortedByHybrid(SubSeq(results, 1, top - 1)
                                   \o SubSeq(results, top + 1, Len(results)))

\* The hybrid score without the cap on the keyword term
hybrid_score_uncapped(semantic, keyword) ==
    6 * semantic + 4 * keyword

\* hybrid_score = 0.6 * semantic_score + 0.4 * min(keyword_score / 10, 1.0),
\* in thousandths
hybrid_score(semantic, keyword) ==
    6 * semantic + 4 * Min2(keyword, 100)

\* RAGSystem.search(query, k) over chunks: the documents returned, each
\* with the hybrid score it was ranked by
search(query, k0, chunks) ==
    LET n == Len(chunks)
        person == is_person_query(query)
        k == IF person THEN Min2(k0 + PERSON_EXTRA, n) ELSE k0
        Kept(idx) == ~chunks[idx].menu
        \* semantic search for the expanded query
        first == SelectSeq(SubSeq(NearestFirst(chunks, FALSE, 1..n), 1, Min2(k, n)), Kept)
        FirstScore(idx) ==
            chunks[idx].sem + (IF person /\ chunks[idx].title THEN 200 ELSE 0)
        \* semantic search for the variant, for the chunks not yet found
        InFirst(idx) == \E i \in 1..Len(first) : first[i] = idx
        NewKept(idx) == Kept(idx) /\ ~InFirst(idx)
        second == IF HasVariant(query)
                  THEN SelectSeq(SubSeq(NearestFirst(chunks, TRUE, 1..n), 1, Min2(k, n)), NewKept)
                  ELSE << >>
        SecondScore(idx) ==
            chunks[idx].vsem + (IF person /\ chunks[idx].title THEN 100 ELSE 0)
        semantic == first \o second
        InSemantic(idx) == \E i \in 1..Len(semantic) : semantic[i] = idx
        semantic_score(idx) ==
            IF InFirst(idx) THEN FirstScore(idx)
            ELSE IF InSemantic(idx) THEN SecondScore(idx)
            ELSE 0
        \* keyword search
        Matched(idx) == chunks[idx].kw > 0 /\ Kept(idx)
        keyword_score(idx) ==
            IF ~Matched(idx) THEN 0
            ELSE IF person /\ chunks[idx].title THEN 2 * chunks[idx].kw
            ELSE chunks[idx].kw
        KeywordOnly(idx) == Matched(idx) /\ ~InSemantic(idx)
        keyword == SelectSeq([i \in 1..n |-> i], KeywordOnly)
        \* {**semantic_results, **keyword_results} and the hybrid score
        all_results == semantic \o keyword
        combined == [i \in 1..Len(all_results) |->
                        [idx |-> all_results[i],
                         semantic_score |-> semantic_score(all_results[i]),
                         keyword_score |-> keyword_score(all_results[i]),
                         hybrid_score |->
                             hybrid_score(semantic_score(all_results[i]),
                                          keyword_score(all_results[i]))]]
        sorted_results == SortedByHybrid(combined)
    IN  SubSeq(sorted_results, 1, Min2(k, Len(sorted_results)))

SearchQueries == {M_PRINCIPAL, Q_HOD, Q_LIBRARY}

\* retrieved = self.search(query, k)
Search ==
    /\ turns < MaxSearches
    /\ \E query \in SearchQueries, k \in 1..MaxK, c \in 1..Len(Corpora) :
         last' = [op |-> "search", query |-> query, k |-> k, corpus |-> c,
                  returned |-> search(query, k, Corpora[c])]
    /\ turns' = turns + 1
    /\ UNCHANGED <<agentVars, cacheVars, now, owner, first_response, ticks, threads, response_cache>>

NextSearch == Search

SpecSearch == Init /\ [][NextSearch]_vars

\* C20: search(query, k) returns at most k documents, ordered by
\* non-increasing hybrid score.
C20_AtMostKSortedByScore ==
    last.op = "search"
    => /\ Len(last.returned) <= last.k
       /\ \A i \in 1..Len(last.returned) : \A j \in i..Len(last.returned) :
            last.returned[i].hybrid_score >= last.returned[j].hybrid_score

----------------------------------------------------------------------------
(* Properties of the hybrid score                                          *)

\* The steps by which a score is raised in the monotonicity test
ScoreSteps == 0..MaxRaise

\* C21: the fused score of every candidate is 0.6 * semantic +
\* 0.4 * min(keyword / 10, 1.0), a candidate without a keyword match or
\* without a semantic hit counts zero for that term, and raising either
\* score with the other fixed never lowers the fused score.
C21_FusionFormulaMonotonic ==
    last.op = "search"
    => \A i \in 1..Len(last.returned) :
         \E r \in {last.returned[i]} : \E chunk \in {Corpora[last.corpus][r.idx]} :
           /\ r.hybrid_score
                = 6 * r.semantic_score
                    + 4 * (IF r.keyword_score < 100 THEN r.keyword_score ELSE 100)
           /\ chunk.kw = 0 => r.keyword_score = 0
           /\ r.semantic_score = 0
                => r.keyword_score > 0 /\ r.hybrid_score <= 400
           /\ \A up \in ScoreSteps :
                /\ hybrid_score(r.semantic_score + up, r.keyword_score) >= r.hybrid_score
                /\ hybrid_score(r.semantic_score, r.keyword_score + 10 * up) >= r.hybrid_score

\* A search that returns a chunk found by keyword only, its keyword term
\* capped, next to chunks found semantically
C21_Witness ==
    /\ last.op = "search"
    /\ \E i \in 1..Len(last.returned) :
         /\ last.returned[i].semantic_score = 0
         /\ last.returned[i].keyword_score > 100
         /\ last.returned[i].hybrid_score = 400
    /\ \E i \in 1..Len(last.returned) :
         /\ last.returned[i].semantic_score > 0
         /\ last.returned[i].keyword_score > 0

----------------------------------------------------------------------------
(* RAGSystem.__call__: retrieval followed by the cross-encoder reranking   *)

\* retrieved = self.search(query, k=5); reranked = self.rerank(..., top_k=3)
SEARCH_K == 5
RERANK_TOP_K == 3

\* What cross_encoder.predict can do: raise, or score the documents; the
\* scorings of this model favour the low or the high chunk indices.
Scorers == {"raise", "low_first", "high_first"}

ScoreOf(scorer, doc) == IF scorer = "low_first" THEN 0 - doc.idx ELSE doc.idx

\* sorted(zip(scores, documents), key = score, reverse = True), stable
RECURSIVE SortedByScore(_, _)
SortedByScore(scorer, documents) ==
    IF documents = << >> THEN << >>
    ELSE LET top == CHOOSE i \in 1..Len(documents) :
                        /\ \A j \in 1..Len(documents) :
                             ScoreOf(scorer, documents[j]) <= ScoreOf(scorer, documents[i])
                        /\ \A j \in 1..(i - 1) :
                             ScoreOf(scorer, documents[j]) < ScoreOf(scorer, documents[i])
         IN  <<documents[top]>>
               \o SortedByScore(scorer, SubSeq(documents, 1, top - 1)
                                          \o SubSeq(documents, top + 1, Len(documents)))

\* RAGSystem.rerank: predict is called with no handler around it, so what
\* it raises leaves rerank, and there is no list of documents
rerank(documents, top_k, scorer) ==
    IF documents = << >> THEN [raised |-> FALSE, documents |-> << >>]
    ELSE IF scorer = "raise" THEN [raised |-> TRUE, documents |-> << >>]
    ELSE [raised |-> FALSE,
          documents |-> SubSeq(SortedByScore(scorer, documents), 1,
                               Min2(top_k, Len(documents)))]

\* The else branch of RAGSystem.__call__ up to the reranked documents: no
\* handler there either, so an exception of rerank leaves __call__
Pipeline ==
    /\ turns < MaxSearches
    /\ \E query \in SearchQueries, c \in 1..Len(Corpora), scorer \in Scorers :
         \E retrieved \in {search(query, SEARCH_K, Corpora[c])} :
           \E reranked \in {rerank(retrieved, RERANK_TOP_K, scorer)} :
             last' = [op |-> "pipeline", query |-> query, corpus |-> c,
                      scorer |-> scorer, retrieved |-> retrieved,
                      raised |-> reranked.raised,
                      documents |-> reranked.documents]
    /\ turns' = turns + 1
    /\ UNCHANGED <<agentVars, cacheVars, now, owner, first_response, ticks, threads, response_cache>>

NextRag == Pipeline

SpecRag == Init /\ [][NextRag]_vars

\* C22: when the reranker's scoring function fails, the pipeline does not
\* raise and continues with the retrieved documents in their original
\* order, unchanged.
C22_RerankerFailurePassesThrough ==
    (last.op = "pipeline" /\ last.scorer = "raise")
    => /\ ~last.raised
       /\ last.documents = last.retrieved

----------------------------------------------------------------------------
(* Properties of the greetings and of the scope check                      *)

\* The message without the punctuation that closes it
RECURSIVE WithoutClosingPunctuation(_)
WithoutClosingPunctuation(s) ==
    IF s # << >> /\ s[Len(s)] \in {"?", "!", "."}
    THEN WithoutClosingPunctuation(SubSeq(s, 1, Len(s) - 1))
    ELSE s

\* The message is one of the greetings, whatever its case and its closing
\* punctuation
IsGreetingInput(message) ==
    WithoutClosingPunctuation(ToLower(Strip(message))) \in Greetings

\* C23: every greeting, one with trailing punctuation included, is answered
\* with the canned greeting and routed to no tool.
C23_EveryGreetingGreeted ==
    (last.op = "query" /\ IsGreetingInput(last.message))
    => /\ last.response = GREETING
       /\ last.selected = "none"
       /\ last.calls = << >>

\* The queries of test_scope_validation, none of them about the college
UnrelatedQueries == {M_SQUARE, M_SOLVE, M_PHOTOSYNTHESIS}

\* C24: every query unrelated to the college is answered with the scope
\* rejection and is never routed to a tool.
C24_UnrelatedQueriesRejected ==
    (last.op = "query" /\ last.message \in UnrelatedQueries)
    => /\ last.response = SCOPE_REJECT
       /\ last.selected = "none"
       /\ last.calls = << >>

----------------------------------------------------------------------------
(* Properties of the cache writes of the tools                             *)

\* The cache key of the tool call that ran last
CallKey ==
    CASE last.tool = "check_static_facts" -> ToLower(last.query)
      [] last.tool = "scrape_latest_notices" -> <<"l", "a", "t", "e", "s", "t", "_", "n", "o", "t", "i", "c", "e", "s">>
      [] last.tool = "scrape_placements" -> <<"p", "l", "a", "c", "e", "m", "e", "n", "t", "s">>
      [] last.tool = "query_database" -> <<"d", "b", "_">> \o ToLower(last.query)
      [] last.tool = "search_website" -> <<"s", "e", "a", "r", "c", "h", "_">> \o ToLower(last.query)
      [] last.tool = "query_student_portal" ->
           <<"p", "o", "r", "t", "a", "l", "_", "a", "u", "t", "o", "n", "o", "m", "o", "u", "s", "_">> \o ToUpper(T_USER) \o <<"_">> \o last.query

\* The tool call that ran last left its payload under its key
PayloadStored ==
    IF last.tool = "check_static_facts"
    THEN /\ CallKey \in DOMAIN static_cache
         /\ static_cache[CallKey] = last.result.data
    ELSE /\ CallKey \in DOMAIN dynamic_cache
         /\ dynamic_cache[CallKey] = [value |-> last.result.data, timestamp |-> now]

\* C25: a tool call writes to the cache exactly when it returns success
\* True with cached False, and then it stores its payload under its key;
\* a call that returns success False or cached True leaves both tiers
\* unchanged.
C25_WritesExactlyOnFreshSuccess ==
    last.op = "tool"
    => IF last.result.success /\ ~last.result.cached
       THEN PayloadStored
       ELSE /\ static_cache = last.pre.static_cache
            /\ dynamic_cache = last.pre.dynamic_cache

----------------------------------------------------------------------------
(* The conversation history over a longer conversation                     *)

HistoryMessages == {M_HELLO, M_FEE, M_ANDY, M_RESULTS, M_ROLL}

HistoryTurn ==
    /\ turns < MaxHistoryTurns
    /\ \E message \in HistoryMessages : Query(1, message)

NextHistory == HistoryTurn

SpecHistory == Init /\ [][NextHistory]_vars

\* The last turn passed the empty, greeting, scope and username returns of
\* __call__ and went on to _select_tool
ReachedRouting ==
    /\ last.op = "query"
    /\ Strip(last.message) # << >>
    /\ ~GreetingTurn
    /\ ~ScopeRejectedTurn
    /\ ~(last.pre.waiting_for_credential /\ NoUsername(last.pre.temp_username))

\* history with q added at the end, the oldest entry dropped when there
\* were 3 already
OldestDropped(history, q) ==
    IF Len(history) < 3
    THEN Append(history, q)
    ELSE Append(SubSeq(history, 2, Len(history)), q)

\* C26: the conversation history never holds more than 3 entries; a turn
\* that reaches routing appends its query as received, before context
\* resolution, dropping the oldest entry when there were 3 already, and
\* every other turn leaves the history as it was.
C26_HistoryKeepsLastThreeRawQueries ==
    /\ Len(conversation_history) <= 3
    /\ last.op = "query" =>
         conversation_history =
             IF ReachedRouting
             THEN OldestDropped(last.history_before, Strip(last.message))
             ELSE last.history_before

C26_Witness ==
    /\ ReachedRouting
    /\ Len(last.history_before) = 3
    /\ last.message = M_ANDY
    /\ LastPlan.query # M_ANDY
    /\ conversation_history[3] = M_ANDY
    /\ conversation_history[1] = last.history_before[2]
    /\ last.history_before[1] # last.history_before[2]

----------------------------------------------------------------------------
(* response_cache.py: the cache of whole responses kept by main.py.  The   *)
(* cache is a dict, modelled as the sequence of its entries in the order   *)
(* of insertion of their keys.  A timestamp is the number of seconds       *)
(* between the start of the run and datetime.now(): the ISO text of a      *)
(* naive datetime sorts as the instant does.                                *)

CACHE_DURATION_HOURS == 24

\* if len(self.cache) > 500
CACHE_LIMIT == 500

\* sorted_keys[:100]
EVICT_COUNT == 100

\* timedelta(hours=CACHE_DURATION_HOURS), in seconds
CacheDuration == CACHE_DURATION_HOURS * 3600

\* A question: what is asked, and how it is spelled (case and outer blanks)
Question(id, form) == [id |-> id, form |-> form]

\* question.lower().strip(), hashed: questions that differ in spelling only
\* share a key
get_cache_key(question) == question.id

ResponseKeys(cache) == {cache[i].key : i \in DOMAIN cache}

\* del self.cache[key] for each key of keys
Deleted(cache, keys) ==
    Only({SelectSeq(c, LAMBDA entry : entry.key \notin ks)
            : c \in {cache}, ks \in {keys}})

\* self.cache[key] = {...}: a key already present keeps its place
Assigned(cache, key, question, response, t) ==
    Only({IF \E i \in DOMAIN c : c[i].key = key
          THEN [i \in DOMAIN c |-> IF c[i].key = key THEN entry ELSE c[i]]
          ELSE Append(c, entry)
            : c \in {cache},
              entry \in {[key |-> key, question |-> question,
                          response |-> response, timestamp |-> t]}})

\* The oldest and the newest timestamp among the entries at places lo..hi
RECURSIVE OldestIn(_, _, _)
OldestIn(cache, lo, hi) ==
    IF lo = hi
    THEN cache[lo].timestamp
    ELSE Only({IF a < b THEN a ELSE b
                 : a \in {OldestIn(cache, lo, (lo + hi) \div 2)},
                   b \in {OldestIn(cache, (lo + hi) \div 2 + 1, hi)}})

RECURSIVE NewestIn(_, _, _)
NewestIn(cache, lo, hi) ==
    IF lo = hi
    THEN cache[lo].timestamp
    ELSE Only({IF a > b THEN a ELSE b
                 : a \in {NewestIn(cache, lo, (lo + hi) \div 2)},
                   b \in {NewestIn(cache, (lo + hi) \div 2 + 1, hi)}})

\* The number of entries written at t or before
WrittenBy(cache, t) ==
    Cardinality({i \in DOMAIN cache : cache[i].timestamp <= t})

\* The timestamp of the n-th key of sorted(self.cache.keys(), key=timestamp):
\* the least t between lo and hi with n entries written at t or before
RECURSIVE NthTimestamp(_, _, _, _)
NthTimestamp(cache, n, lo, hi) ==
    IF lo = hi
    THEN lo
    ELSE IF WrittenBy(cache, (lo + hi) \div 2) >= n
    THEN NthTimestamp(cache, n, lo, (lo + hi) \div 2)
    ELSE NthTimestamp(cache, n, (lo + hi) \div 2 + 1, hi)

\* The first n keys of the dict, whatever their timestamps
sorted_keys_unsorted(cache, n) == {cache[i].key : i \in 1..n}

\* sorted_keys[:n] for n <= len(self.cache): the keys of the entries older
\* than the n-th timestamp and, the sort being stable, of the first entries
\* in the order of the dict among those written at the n-th timestamp
sorted_keys(cache, n) ==
    UNION {UNION {UNION {{c[i].key : i \in older \cup
                            {e \in equal : Cardinality({j \in equal : j < e})
                                              < n - Cardinality(older)}}
                           : older \in {{i \in DOMAIN c : c[i].timestamp < nth}},
                             equal \in {{i \in DOMAIN c : c[i].timestamp = nth}}}
                    : nth \in {NthTimestamp(c, n, OldestIn(c, 1, Len(c)),
                                            NewestIn(c, 1, Len(c)))}}
             : c \in {cache}}

\* datetime.now() - cached_time > timedelta(hours=CACHE_DURATION_HOURS)
Expired(entry, t) == t - entry.timestamp > CacheDuration

\* ResponseCache.set, the cache it leaves
response_set(cache, question, response, t) ==
    Only({IF Len(written) > CACHE_LIMIT
          THEN Deleted(written, sorted_keys(written, EVICT_COUNT))
          ELSE written
            : written \in {Assigned(cache, get_cache_key(question), question,
                                    response, t)}})

\* ResponseCache.get, the cache it leaves and what it returns
response_get(cache, question, t) ==
    Only({IF found = {}
          THEN [cache |-> cache, result |-> NoValue]
          ELSE IF Expired(cache[Only(found)], t)
          THEN [cache |-> Deleted(cache, {get_cache_key(question)}),
                result |-> NoValue]
          ELSE [cache |-> cache, result |-> cache[Only(found)].response]
            : found \in {{i \in DOMAIN cache :
                             cache[i].key = get_cache_key(question)}}})

\* ResponseCache.clear_old, the cache it leaves
clear_old(cache, t) ==
    Deleted(cache, {cache[i].key : i \in {j \in DOMAIN cache :
                                             Expired(cache[j], t)}})

\* load_cache: the file save_cache wrote in an earlier run, n entries whose
\* timestamps lie in the m seconds before the start of this run, in an
\* order other than that of their keys
Loaded(n, m) ==
    [i \in 1..n |-> [key |-> i, question |-> Question(i, "plain"),
                     response |-> "loaded", timestamp |-> 0 - ((i * 37) % m)]]

LoadedCaches ==
    {<< >>} \cup {Loaded(n, m) : n \in {CACHE_LIMIT - 1, CACHE_LIMIT},
                                 m \in {7, 601}}

ResponseQuestions ==
    {Question(1, "plain"), Question(CACHE_LIMIT + 1, "plain"),
     Question(CACHE_LIMIT + 1, "upper")}

InitResponse ==
    /\ waiting_for_credential = FALSE
    /\ temp_username = None
    /\ portal_credentials = None
    /\ conversation_history = << >>
    /\ last_topic = None
    /\ llm_available = FALSE
    /\ static_cache = EmptyCache
    /\ dynamic_cache = EmptyCache
    /\ now = 0
    /\ last = [op |-> "none"]
    /\ ticks = 0
    /\ owner = [prompted |-> 0, username |-> 0, credentials |-> 0]
    /\ first_response = << >>
    /\ turns = 0
    /\ threads = [t \in ThreadIds |-> IdleThread]
    /\ response_cache \in LoadedCaches

ResponseUnchanged ==
    UNCHANGED <<agentVars, cacheVars, owner, first_response, ticks, threads>>

ResponseSet ==
    /\ turns < MaxResponseOps
    /\ \E question \in ResponseQuestions :
         /\ response_cache' = response_set(response_cache, question, "answer", now)
         /\ last' = [op |-> "set", question |-> question,
                     response |-> "answer", pre |-> response_cache]
    /\ turns' = turns + 1
    /\ UNCHANGED now
    /\ ResponseUnchanged

ResponseGet ==
    /\ turns < MaxResponseOps
    /\ \E question \in ResponseQuestions :
         \E got \in {response_get(response_cache, question, now)} :
           /\ response_cache' = got.cache
           /\ last' = [op |-> "get", question |-> question,
                       result |-> got.result]
    /\ turns' = turns + 1
    /\ UNCHANGED now
    /\ ResponseUnchanged

ResponseClearOld ==
    /\ turns < MaxResponseOps
    /\ response_cache' = clear_old(response_cache, now)
    /\ last' = [op |-> "clear_old"]
    /\ turns' = turns + 1
    /\ UNCHANGED now
    /\ ResponseUnchanged

\* Time passes between two operations: a second, or the whole lifetime of
\* an entry
Elapse ==
    /\ ticks < MaxTicks
    /\ \E d \in {1, CacheDuration} : now' = now + d
    /\ ticks' = ticks + 1
    /\ last' = [op |-> "elapse"]
    /\ UNCHANGED <<agentVars, cacheVars, owner, first_response, turns, threads,
                   response_cache>>

NextResponse == ResponseSet \/ ResponseGet \/ ResponseClearOld \/ Elapse

SpecResponse == InitResponse /\ [][NextResponse]_vars

\* The cache of the last set as the assignment of line 59 left it
AfterAssignment ==
    Assigned(last.pre, get_cache_key(last.question), last.question,
             last.response, now)

\* The places in written of the entries that are not in the cache any more
RemovedPlaces(written) ==
    UNION {{i \in DOMAIN written : written[i].key \notin keys}
             : keys \in {ResponseKeys(response_cache)}}

\* C27: the response cache never holds more than 500 entries; a set that
\* takes the size above 500 removes 100 entries, none of them newer than
\* an entry it keeps, and keeps the entry it has just written; any other
\* set removes nothing.
C27_ResponseCacheBounded ==
    /\ Len(response_cache) <= 500
    /\ last.op = "set" =>
         /\ \E i \in DOMAIN response_cache :
              /\ response_cache[i].key = get_cache_key(last.question)
              /\ response_cache[i].timestamp = now
              /\ response_cache[i].response = last.response
         /\ \E written \in {AfterAssignment} :
              IF Len(written) > 500
              THEN \E removed \in {RemovedPlaces(written)} :
                     /\ Cardinality(removed) = 100
                     /\ response_cache =
                            Deleted(written, {written[r].key : r \in removed})
                     /\ \A r \in removed :
                          \A k \in DOMAIN written \ removed :
                            written[r].timestamp <= written[k].timestamp
              ELSE response_cache = written

C27_Witness ==
    /\ last.op = "set"
    /\ Len(last.pre) = 500
    /\ Len(response_cache) = 401
    /\ response_cache[401].key = get_cache_key(last.question)
    /\ \E keys \in {ResponseKeys(response_cache)} :
         /\ \E i \in 1..100 : last.pre[i].key \in keys
         /\ \E i \in 101..500 : last.pre[i].key \notin keys

----------------------------------------------------------------------------
(* The login flow                                                          *)

\* The login state a pair (waiting_for_credential, temp_username) stands for
PairState(waiting, temp) ==
    CASE ~waiting /\ temp = None -> "Idle"
      [] waiting /\ temp = None -> "AwaitingUsername"
      [] waiting /\ temp # None /\ temp # << >> -> "AwaitingPassword"
      [] OTHER -> "none"

\* C28: a username is pending exactly in the state AwaitingPassword: it is
\* never set, and never the empty text, while waiting_for_credential is
\* false; the turn that takes the password returns to Idle and clears the
\* username in the same step, and the turn that takes the username is the
\* only one that sets it.
C28_PendingUsernameIffAwaitingPassword ==
    /\ PairState(waiting_for_credential, temp_username) # "none"
    /\ temp_username # None <=>
           PairState(waiting_for_credential, temp_username) = "AwaitingPassword"
    /\ last.op = "query" =>
         \E before \in {PairState(last.pre.waiting_for_credential,
                                   last.pre.temp_username)},
            after \in {PairState(waiting_for_credential, temp_username)} :
           /\ before # "none"
           /\ before = "AwaitingPassword" /\ after # before
                => after = "Idle" /\ temp_username = None
           /\ after = "AwaitingPassword" /\ after # before
                => before = "AwaitingUsername"
           /\ before = "Idle" => after \in {"Idle", "AwaitingUsername"}

C28_Witness ==
    /\ last.op = "query"
    /\ last.pre.waiting_for_credential
    /\ last.pre.temp_username = ToUpper(Strip(M_ROLL))
    /\ last.message = M_SECRET
    /\ ~waiting_for_credential
    /\ temp_username = None
    /\ portal_credentials # None

\* The last turn reached the login block of __call__ while a credential was
\* awaited: its message was taken as the username or as the password
CredentialTurn ==
    /\ last.op = "query"
    /\ last.pre.waiting_for_credential
    /\ Strip(last.message) # << >>
    /\ ~GreetingTurn
    /\ ~ScopeRejectedTurn

\* The message of the last turn does not appear as the query of a tool call:
\* the only tool called is the portal's, for the results of the synthesized
\* query, and the message is at most its password argument
NotAQueryText ==
    \A i \in DOMAIN last.calls :
        /\ last.calls[i].tool = "query_student_portal"
        /\ last.calls[i].args[3] = RESULTS_PLAN.data_type

\* C29: a message taken as the username or as the password is not appended
\* to the conversation history and is not the query text of any tool call
\* of its turn.
C29_CredentialsStayOutOfHistory ==
    CredentialTurn
    => /\ conversation_history = last.history_before
       /\ NotAQueryText

\* The TTL the tool that ran last passes to get_dynamic
CallTtl ==
    CASE last.tool = "scrape_latest_notices" -> NOTICES_TTL
      [] last.tool = "scrape_placements" -> PLACEMENTS_TTL
      [] last.tool = "query_database" -> DATABASE_TTL
      [] last.tool = "search_website" -> SEARCH_TTL
      [] last.tool = "query_student_portal" -> PORTAL_TTL

\* The tool call that ran last found an entry under its key in the dynamic
\* tier, younger than its TTL
FoundFreshEntry ==
    /\ last.op = "tool"
    /\ last.tool # "check_static_facts"
    /\ CallKey \in DOMAIN last.pre.dynamic_cache
    /\ now - last.pre.dynamic_cache[CallKey].timestamp < CallTtl

\* C30: a tool call that finds an entry younger than its TTL under its key
\* returns the value of that entry with cached true and fetches nothing,
\* so that both tiers stay as they were, whatever the value stored.
C30_FreshEntryAlwaysServed ==
    FoundFreshEntry
    => /\ last.result.success
       /\ last.result.cached
       /\ last.result.data = last.pre.dynamic_cache[CallKey].value
       /\ dynamic_cache = last.pre.dynamic_cache
       /\ static_cache = last.pre.static_cache

====
